---- MODULE Spec2Model ----
(***************************************************************************)
(* Model of the dynamic-configuration handlers of package admin            *)
(* (DomainAdd, DomainRemove, DKIMAdd, DKIMRemove, DomainSave and the alias  *)
(* handlers, AccountAdd, AddressAdd, AddressRemove, ...).                  *)
(*                                                                         *)
(* Conf is mox.Conf.Dynamic as a reader sees it, ADL is                    *)
(* mox.Conf.AccountDestinationsLocked, files/old are the key files under   *)
(* dkim/ and dkim/old/, lock is the dynamic-config mutex, and call[p] is   *)
(* the position and the local variables of the handler invocation that     *)
(* goroutine p runs.                                                       *)
(***************************************************************************)
EXTENDS Integers, Sequences, FiniteSets, TLC

\* ------------------------------------------------------------------ bounds

\* Goroutines that call handlers concurrently.
NumProcs == 2
\* Handler calls started in one behaviour.
MaxCalls == 3
\* Seconds of wall clock (key file names embed the second of their creation).
MaxTime == 1
\* Messages in the delivery queue.
MaxQueue == 2
\* TLS public keys in the store.
MaxKeys == 2

Procs == 1..NumProcs

\* ------------------------------------------------------------------ values

\* Domains are "d1", "d2", "d3", accounts "a1", "a2", "a3"; the selectors
\* "ya"/"yb" stand for <year>a/<year>b, "s" and "t" for selectors an operator
\* chose.

EmptyMap == [x \in {} |-> x]
Put(m, k, v) == [x \in (DOMAIN m) \cup {k} |-> IF x = k THEN v ELSE m[x]]
Del(m, k) == [x \in (DOMAIN m) \ {k} |-> m[x]]
Has(m, k) == k \in DOMAIN m

\* A localpart is the sequence of its tokens, so that a catchall separator in
\* it can be looked for: "u+x" is <<"u", "+", "x">>. An address string lp@dom
\* is the pair <<lp, dom>>; the catchall "@dom" has the empty localpart.
Address(lp, dom) == <<lp, dom>>
IsCatchall(a) == a[1] = <<>>
Postmaster == <<"postmaster">>
DmarcReports == <<"dmarcreports">>
TlsReports == <<"tlsreports">>
LpU == <<"u">>
LpUX == <<"u", "+", "x">>

NoConf == [Domains |-> EmptyMap, Accounts |-> EmptyMap, Routes |-> ""]

\* ------------------------------------------------------------------ key files

\* A key file name <sel>._domainkey.<dom>.<timestamp>.<kind>.privatekey.pkcs8.pem
KeyName(sel, dom, ts, kind) == <<sel, dom, ts, kind>>
\* Selector.PrivateKeyFile: the name under dkim/, written either clean
\* ("dkim/<name>") or with a redundant element ("dkim/./<name>").
KeyPath(name) == [name |-> name, dot |-> FALSE]
Clean(pkf) == [pkf EXCEPT !.dot = FALSE]

\* A PEM block with the note of the key and the key itself, which is drawn
\* from cryptorand.Reader: rnd stands for what is drawn.
MakeDKIMRSAKey(sel, dom, rnd) ==
  <<"rsa-2048", sel, dom, rnd>>
MakeDKIMEd25519Key(sel, dom, rnd) ==
  <<"ed25519", sel, dom, rnd>>

WriteFaults == {"none", "create", "write", "close"}

\* writeFile that opens an existing file and writes over it.
writeFileOver(fs, path, data, fault) ==
  IF fault = "create" THEN [fs |-> fs, err |-> TRUE]
  ELSE IF fault \in {"write", "close"}
       THEN [fs |-> Del(Put(fs, path, <<"partial">>), path), err |-> TRUE]
  ELSE [fs |-> Put(fs, path, data), err |-> FALSE]

\* writeFile: exclusive create; a failed write or close removes the file again.
writeFile(fs, path, data, fault) ==
  IF path \in DOMAIN fs \/ fault = "create" THEN [fs |-> fs, err |-> TRUE]
  ELSE IF fault \in {"write", "close"}
       THEN [fs |-> Del(Put(fs, path, <<"partial">>), path), err |-> TRUE]
  ELSE [fs |-> Put(fs, path, data), err |-> FALSE]

RemoveAll(fs, names) == [x \in (DOMAIN fs) \ names |-> fs[x]]

\* ------------------------------------------------------------------ config values

\* MakeAccountConfig that leaves the destination out.
MakeAccountConfigEmpty(addr) ==
  [Destinations |-> {}, Aliases |-> {}, FullName |-> ""]

\* MakeAccountConfig: a new account with the one destination addr.
MakeAccountConfig(addr) ==
  [Destinations |-> {addr}, Aliases |-> {}, FullName |-> ""]

Faults == WriteFaults \cup {"keygen"}

NoDomain == [Sign |-> <<>>, Selectors |-> EmptyMap, Aliases |-> EmptyMap,
             Sep |-> "", Reports |-> ""]

\* MakeDomainConfig: two rsa selectors <year>a and <year>b, each with its own
\* key file named after the second ts; signing with <year>a. f1 and f2 are
\* what goes wrong while adding the first and the second selector. paths are
\* the files created, which the caller removes if it fails later; on an error
\* the deferred function has removed what this call created.
MakeDomainConfigKeepFirst(fs, domain, accountName, ts, rnd, f1, f2) ==
  LET na == KeyName("ya", domain, ts, "rsa2048")
      nb == KeyName("yb", domain, ts, "rsa2048")
      w1 == IF f1 = "keygen" THEN [fs |-> fs, err |-> TRUE]
            ELSE writeFile(fs, na, MakeDKIMRSAKey("ya", domain, rnd), f1)
      w2 == IF f2 = "keygen" THEN [fs |-> w1.fs, err |-> TRUE]
            ELSE writeFile(w1.fs, nb, MakeDKIMRSAKey("yb", domain, rnd), f2)
  IN  IF w1.err THEN [err |-> TRUE, fs |-> w1.fs, paths |-> {}, dom |-> NoDomain]
      ELSE IF w2.err THEN [err |-> TRUE, fs |-> w2.fs, paths |-> {}, dom |-> NoDomain]
      ELSE [err |-> FALSE, fs |-> w2.fs, paths |-> {na, nb},
            dom |-> [Sign |-> <<"ya">>,
                     Selectors |-> Put(Put(EmptyMap, "ya", [Hash |-> "", PrivateKeyFile |-> KeyPath(na)]),
                                       "yb", [Hash |-> "", PrivateKeyFile |-> KeyPath(nb)]),
                     Aliases |-> EmptyMap,
                     Sep |-> "+",
                     Reports |-> accountName]]

MakeDomainConfig(fs, domain, accountName, ts, rnd, f1, f2) ==
  LET na == KeyName("ya", domain, ts, "rsa2048")
      nb == KeyName("yb", domain, ts, "rsa2048")
      w1 == IF f1 = "keygen" THEN [fs |-> fs, err |-> TRUE]
            ELSE writeFile(fs, na, MakeDKIMRSAKey("ya", domain, rnd), f1)
      w2 == IF f2 = "keygen" THEN [fs |-> w1.fs, err |-> TRUE]
            ELSE writeFile(w1.fs, nb, MakeDKIMRSAKey("yb", domain, rnd), f2)
  IN  IF w1.err THEN [err |-> TRUE, fs |-> w1.fs, paths |-> {}, dom |-> NoDomain]
      ELSE IF w2.err
           THEN [err |-> TRUE, fs |-> RemoveAll(w2.fs, {na}), paths |-> {}, dom |-> NoDomain]
      ELSE [err |-> FALSE, fs |-> w2.fs, paths |-> {na, nb},
            dom |-> [Sign |-> <<"ya">>,
                     Selectors |-> Put(Put(EmptyMap, "ya", [Hash |-> "", PrivateKeyFile |-> KeyPath(na)]),
                                       "yb", [Hash |-> "", PrivateKeyFile |-> KeyPath(nb)]),
                     Aliases |-> EmptyMap,
                     Sep |-> "+",
                     Reports |-> accountName]]

\* ------------------------------------------------------------------ parsed config

\* strings.Contains(localpart, sep)
Contains(lp, sep) == \E i \in 1..Len(lp) : lp[i] = sep

\* mox.CanonicalLocalpart: the localpart up to the first catchall separator
\* of the domain.
CanonicalLocalpart(lp, dc) ==
  IF dc.Sep # "" /\ Contains(lp, dc.Sep)
  THEN SubSeq(lp, 1, (CHOOSE i \in 1..Len(lp) :
                        lp[i] = dc.Sep /\ \A j \in 1..(i - 1) : lp[j] # dc.Sep) - 1)
  ELSE lp

\* The key of a destination in AccountDestinationsLocked.
DestKey(conf, a) ==
  IF IsCatchall(a) \/ ~Has(conf.Domains, a[2]) THEN a
  ELSE Address(CanonicalLocalpart(a[1], conf.Domains[a[2]]), a[2])

\* <<account, address>> for every configured destination.
DestPairs(conf) ==
  UNION {{<<n, d>> : d \in conf.Accounts[n].Destinations} : n \in DOMAIN conf.Accounts}

\* <<account, address>> for the report addresses of every domain.
ReportPairs(conf) ==
  UNION {{<<conf.Domains[dn].Reports, Address(lp, dn)>> : lp \in {DmarcReports, TlsReports}}
         : dn \in {x \in DOMAIN conf.Domains : conf.Domains[x].Reports # ""}}

\* AccountDestinationsLocked as computed from a configuration.
AccDests(conf) ==
  LET P == DestPairs(conf) \cup ReportPairs(conf)
      K == {DestKey(conf, p[2]) : p \in P}
  IN  [k \in K |->
         LET p == IF \E q \in DestPairs(conf) : DestKey(conf, q[2]) = k
                  THEN CHOOSE q \in DestPairs(conf) : DestKey(conf, q[2]) = k
                  ELSE CHOOSE q \in ReportPairs(conf) : DestKey(conf, q[2]) = k
         IN  [Account |-> p[1], Localpart |-> k[1]]]

\* Account.Aliases, filled when parsing: the aliases an address of the account
\* is a member of.
AliasRefs(conf, n) ==
  UNION {UNION {{[SubscriptionAddress |-> conf.Domains[dn].Aliases[al].Addresses[i],
                  Alias |-> Address(al, dn)]
                 : i \in {j \in 1..Len(conf.Domains[dn].Aliases[al].Addresses) :
                            conf.Domains[dn].Aliases[al].Addresses[j]
                              \in conf.Accounts[n].Destinations}}
                : al \in DOMAIN conf.Domains[dn].Aliases}
         : dn \in DOMAIN conf.Domains}

Prepare(conf) ==
  [conf EXCEPT !.Accounts =
     [n \in DOMAIN conf.Accounts |-> [conf.Accounts[n] EXCEPT !.Aliases = AliasRefs(conf, n)]]]

NoDuplicates(seq) == \A i, j \in 1..Len(seq) : seq[i] = seq[j] => i = j

\* The checks of a configuration before it is written and takes effect.
Valid(conf) ==
  /\ \A p \in DestPairs(conf) : Has(conf.Domains, p[2][2])
  /\ \A p, q \in DestPairs(conf) : DestKey(conf, p[2]) = DestKey(conf, q[2]) => p = q
  /\ \A dn \in DOMAIN conf.Domains :
       LET dc == conf.Domains[dn]
       IN  /\ \A i \in 1..Len(dc.Sign) : Has(dc.Selectors, dc.Sign[i])
           /\ \A al \in DOMAIN dc.Aliases :
                /\ Len(dc.Aliases[al].Addresses) >= 1
                /\ NoDuplicates(dc.Aliases[al].Addresses)
                /\ \A i \in 1..Len(dc.Aliases[al].Addresses) :
                     Has(conf.Domains, dc.Aliases[al].Addresses[i][2])
                /\ \A p \in DestPairs(conf) : DestKey(conf, p[2]) # Address(al, dn)

\* ------------------------------------------------------------------ state

VARIABLES
  Conf,        \* mox.Conf.Dynamic: what a reader of the configuration sees
  ADL,         \* mox.Conf.AccountDestinationsLocked
  files,       \* key files under dkim/: name -> content
  old,         \* key files under dkim/old/: name -> content
  lock,        \* holder of the dynamic-config lock, 0 when free
  now,         \* the wall clock, in seconds
  tlspubkeys,  \* store.TLSPublicKeyList: records [Account, LoginAddress]
  queue,       \* queue.List: records [Account, Sender]
  accountDirs, \* the accounts that have a directory under data/accounts
  call,        \* per goroutine: the handler call it runs, or ran last
  ncalls       \* handler calls started so far

vars == <<Conf, ADL, files, old, lock, now, tlspubkeys, queue, accountDirs, call, ncalls>>

NoPre == [Conf |-> NoConf, ADL |-> EmptyMap, files |-> EmptyMap, old |-> EmptyMap,
          queue |-> {}, tlspubkeys |-> {}]

\* A goroutine that runs no handler. pc is the position in the handler, c the
\* configuration it read as its base, nc the configuration it composes, d the
\* domain config it made, paths the files its deferred cleanup removes, err
\* and why the error it returns ("" for nil, else "request" for an error that
\* wraps ErrRequest and "internal" for one that does not; "panic" when the
\* call ends in a panic of xmodify instead of returning). pre is the state
\* when the call started its transaction, made the key files the call has
\* created, and rep says that the call repeats the goroutine's previous,
\* successful call. cleanupPaths is the list of that name of the quickstart
\* command and removed the paths its fatalf has called os.Remove for, in the
\* order of the calls.
Idle == [pc |-> "idle", op |-> "", arg |-> <<>>, c |-> NoConf, nc |-> NoConf,
         d |-> NoDomain, paths |-> {}, made |-> {}, err |-> "", why |-> "",
         pre |-> NoPre, rep |-> FALSE, cleanupPaths |-> <<>>, removed |-> <<>>]

Pre == [Conf |-> Conf, ADL |-> ADL, files |-> files, old |-> old,
        queue |-> queue, tlspubkeys |-> tlspubkeys]

\* config.Alias: the member addresses and the three flags of an alias.
AliasWith(addresses, postPublic, listMembers, allowMsgFrom) ==
  [Addresses |-> addresses, PostPublic |-> postPublic, ListMembers |-> listMembers,
   AllowMsgFrom |-> allowMsgFrom]

Alias(addresses) == AliasWith(addresses, FALSE, FALSE, FALSE)

\* The published configuration a domain config and an account start from.
Selector(hash, name) == [Hash |-> hash, PrivateKeyFile |-> KeyPath(name)]

\* The configuration at the start: domain d1 with the selectors ya and s
\* and the alias list@d1, domain d2 whose selector ya uses the key file of
\* d1's ya (written with a redundant path element), and account a1.
Key(sel, dom, kind) == KeyName(sel, dom, 0, kind)
LpList == <<"list">>
LpV == <<"v">>

InitConf ==
  Prepare(
    [Domains |->
       Put(Put(EmptyMap, "d1",
               [Sign |-> <<"ya">>,
                Selectors |-> Put(Put(EmptyMap, "ya", Selector("", Key("ya", "d1", "rsa2048"))),
                                  "s", Selector("sha256", Key("s", "d1", "ed25519"))),
                Aliases |-> Put(EmptyMap, LpList,
                                Alias(<<Address(LpU, "d1"), Address(Postmaster, "d1")>>)),
                Sep |-> "+",
                Reports |-> "a1"]),
           "d2",
           [Sign |-> <<"ya">>,
            Selectors |-> Put(Put(EmptyMap, "ya",
                                  [Hash |-> "",
                                   PrivateKeyFile |-> [name |-> Key("ya", "d1", "rsa2048"),
                                                       dot |-> TRUE]]),
                              "yb", Selector("", Key("yb", "d2", "rsa2048"))),
            Aliases |-> EmptyMap,
            Sep |-> "+",
            Reports |-> "a1"]),
     Accounts |->
       Put(EmptyMap, "a1",
           [Destinations |-> {Address(Postmaster, "d1"), Address(LpU, "d1")}, Aliases |-> {},
            FullName |-> ""]),
     Routes |-> ""])

InitFiles ==
  Put(Put(Put(EmptyMap, Key("ya", "d1", "rsa2048"), MakeDKIMRSAKey("ya", "d1", 0)),
          Key("s", "d1", "ed25519"), MakeDKIMEd25519Key("s", "d1", 0)),
      Key("yb", "d2", "rsa2048"), MakeDKIMRSAKey("yb", "d2", 0))

Init ==
  /\ Conf = InitConf
  /\ ADL = AccDests(InitConf)
  /\ files = InitFiles
  /\ old = EmptyMap
  /\ lock = 0
  /\ now = 0
  /\ tlspubkeys = {}
  /\ queue = {}
  /\ accountDirs = DOMAIN InitConf.Accounts
  /\ call = [p \in Procs |-> Idle]
  /\ ncalls = 0

\* ------------------------------------------------------------------ steps shared by the handlers

\* A handler is called: p runs no other call, and the call is the next one.
Start(p, op, arg, pc, err, why) ==
  /\ call[p].pc \in {"idle", "done"}
  /\ ncalls < MaxCalls
  /\ ncalls' = ncalls + 1
  /\ call' = [call EXCEPT ![p] =
       [Idle EXCEPT !.pc = pc, !.op = op, !.arg = arg, !.err = err, !.why = why,
                    !.pre = Pre,
                    !.rep = /\ call[p].pc = "done"
                            /\ call[p].op = op
                            /\ call[p].arg = arg
                            /\ call[p].err = ""]]

\* A handler returns err without having taken the lock.
Fail(p, pc, err, why) ==
  call' = [call EXCEPT ![p].pc = pc, ![p].err = err, ![p].why = why]

\* defer mox.Conf.DynamicLockUnlock()(): wait for the lock, take it; then
\* c := mox.Conf.Dynamic.
DynamicLock(p) ==
  /\ lock = 0
  /\ lock' = p

ReadConfig(p, pc) ==
  call' = [call EXCEPT ![p].pc = pc, ![p].c = Conf, ![p].pre = Pre]

\* mox.WriteDynamicLocked(nc): nc is checked, written to domains.conf and
\* takes effect; io says that writing the file fails.
WriteDynamicLockedOK(nc, io) == Valid(nc) /\ ~io

\* Deferred with the lock released on return only, not when a panic unwinds.
DeferredOnReturn(p) ==
  /\ files' = RemoveAll(files, call[p].paths)
  /\ lock' = IF lock = p /\ call[p].err # "panic" THEN 0 ELSE lock
  /\ call' = [call EXCEPT ![p].pc = "done", ![p].c = NoConf, ![p].nc = NoConf,
                          ![p].d = NoDomain, ![p].paths = {}]

\* The deferred functions of a handler that holds the lock, when it returns:
\* the files still listed for cleanup are removed, the lock is released.
Deferred(p) ==
  /\ files' = RemoveAll(files, call[p].paths)
  /\ lock' = IF lock = p THEN 0 ELSE lock
  /\ call' = [call EXCEPT ![p].pc = "done", ![p].c = NoConf, ![p].nc = NoConf,
                          ![p].d = NoDomain, ![p].paths = {}]

\* time passes
Tick ==
  /\ now < MaxTime
  /\ now' = now + 1
  /\ UNCHANGED <<Conf, ADL, files, old, lock, tlspubkeys, queue, accountDirs, call, ncalls>>

\* The account that address belongs to in conf: the account of its canonical
\* form, else the account of the catchall address of its domain, else "".
Resolve(conf, address) ==
  LET adl == AccDests(conf)
      k == DestKey(conf, address)
      catchall == Address(<<>>, address[2])
  IN  IF Has(adl, k) THEN adl[k].Account
      ELSE IF Has(adl, catchall) THEN adl[catchall].Account
      ELSE ""

\* A message of account with the given sender is submitted and queued; the
\* sender is an address of the account.
Submit(account, sender) ==
  /\ \A p \in Procs : call[p].pc \in {"idle", "done"}
  /\ Cardinality(queue) < MaxQueue
  /\ Has(Conf.Accounts, account)
  /\ Resolve(Conf, sender) = account
  /\ queue' = queue \cup {[Account |-> account, Sender |-> sender]}
  /\ UNCHANGED <<Conf, ADL, files, old, lock, now, tlspubkeys, accountDirs, call, ncalls>>

\* A TLS public key of account with the given login address is stored; the
\* login address is an address of the account, in the form the address is
\* written in the configuration.
TLSPublicKeyAdd(account, loginAddress) ==
  /\ \A p \in Procs : call[p].pc \in {"idle", "done"}
  /\ Cardinality(tlspubkeys) < MaxKeys
  /\ Has(Conf.Accounts, account)
  /\ Resolve(Conf, loginAddress) = account
  /\ tlspubkeys' = tlspubkeys \cup {[Account |-> account, LoginAddress |-> loginAddress]}
  /\ UNCHANGED <<Conf, ADL, files, old, lock, now, queue, accountDirs, call, ncalls>>

\* The handlers that still have work to do after the configuration is written.
PostOps == {"DKIMRemove", "DomainRemove", "AccountRemove"}

\* Write without the checks of the configuration.
WriteUnchecked(p) ==
  /\ call[p].pc = "pub"
  /\ \E io \in BOOLEAN :
       IF ~io
       THEN /\ Conf' = Prepare(call[p].nc)
            /\ ADL' = AccDests(call[p].nc)
            /\ call' = [call EXCEPT ![p].pc = IF call[p].op \in PostOps THEN "post" ELSE "ret",
                                    ![p].paths = {}]
       ELSE /\ UNCHANGED <<Conf, ADL>>
            /\ Fail(p, "ret", "internal", "writing domains.conf")
  /\ UNCHANGED <<files, old, lock, now, tlspubkeys, queue, accountDirs, ncalls>>

\* Write that leaves the files of the call listed for cleanup.
WriteKeepPaths(p) ==
  /\ call[p].pc = "pub"
  /\ \E io \in BOOLEAN :
       IF WriteDynamicLockedOK(call[p].nc, io)
       THEN /\ Conf' = Prepare(call[p].nc)
            /\ ADL' = AccDests(call[p].nc)
            /\ call' = [call EXCEPT ![p].pc = IF call[p].op \in PostOps THEN "post" ELSE "ret"]
       ELSE /\ UNCHANGED <<Conf, ADL>>
            /\ Fail(p, "ret", "internal", "writing domains.conf")
  /\ UNCHANGED <<files, old, lock, now, tlspubkeys, queue, accountDirs, ncalls>>

\* if err := mox.WriteDynamicLocked(ctx, log, nc); err != nil { return ... },
\* and after it the handler's "all good, don't clean up".
Write(p) ==
  /\ call[p].pc = "pub"
  /\ \E io \in BOOLEAN :
       IF WriteDynamicLockedOK(call[p].nc, io)
       THEN /\ Conf' = Prepare(call[p].nc)
            /\ ADL' = AccDests(call[p].nc)
            /\ call' = [call EXCEPT ![p].pc = IF call[p].op \in PostOps THEN "post" ELSE "ret",
                                    ![p].paths = {}]
       ELSE /\ UNCHANGED <<Conf, ADL>>
            /\ Fail(p, "ret", "internal", "writing domains.conf")
  /\ UNCHANGED <<files, old, lock, now, tlspubkeys, queue, accountDirs, ncalls>>

\* The handler returns: its deferred functions run.
Return(p) ==
  /\ call[p].pc = "ret"
  /\ Deferred(p)
  /\ UNCHANGED <<Conf, ADL, old, now, tlspubkeys, queue, accountDirs, ncalls>>

\* gatherUsedKeysPaths: the cleaned key file paths of all selectors of nc.
gatherUsedKeysPaths(nc) ==
  UNION {{Clean(nc.Domains[dn].Selectors[sn].PrivateKeyFile)
          : sn \in DOMAIN nc.Domains[dn].Selectors} : dn \in DOMAIN nc.Domains}

\* moveAwayKeys: the key file of each selector of sels that usedKeyPaths does
\* not hold is renamed into old/, unless a file of that name is there already
\* (or no file is at the path: the rename fails); errors are logged only.
\* The result is the pair of the two directories.
moveAwayKeysToMoveUsed(fs, o, sels, usedKeyPaths) ==
  {sels[sn].PrivateKeyFile.name : sn \in {x \in DOMAIN sels :
      /\ sels[x].PrivateKeyFile.name # <<>>
      /\ ~Has(o, sels[x].PrivateKeyFile.name)
      /\ Has(fs, sels[x].PrivateKeyFile.name)}}

\* moveAwayKeysToMove that does not look whether old/ has the name already.
moveAwayKeysToMoveOver(fs, o, sels, usedKeyPaths) ==
  {sels[sn].PrivateKeyFile.name : sn \in {x \in DOMAIN sels :
      /\ sels[x].PrivateKeyFile.name # <<>>
      /\ Clean(sels[x].PrivateKeyFile) \notin usedKeyPaths
      /\ Has(fs, sels[x].PrivateKeyFile.name)}}

moveAwayKeysToMove(fs, o, sels, usedKeyPaths) ==
  {sels[sn].PrivateKeyFile.name : sn \in {x \in DOMAIN sels :
      /\ sels[x].PrivateKeyFile.name # <<>>
      /\ Clean(sels[x].PrivateKeyFile) \notin usedKeyPaths
      /\ ~Has(o, sels[x].PrivateKeyFile.name)
      /\ Has(fs, sels[x].PrivateKeyFile.name)}}

moveAwayKeys(fs, o, sels, usedKeyPaths) ==
  LET mv == moveAwayKeysToMove(fs, o, sels, usedKeyPaths)
  IN  [files |-> RemoveAll(fs, mv),
       old |-> [n \in (DOMAIN o) \cup mv |-> IF n \in mv THEN fs[n] ELSE o[n]]]

\* ------------------------------------------------------------------ DKIMAdd

\* DKIMAdd up to taking the lock: the hash is checked and the key is made.
DKIMAddCall(p, domain, selector, algorithm, hash, keygen) ==
  /\ LET arg == [domain |-> domain, selector |-> selector, algorithm |-> algorithm,
                 hash |-> hash]
     IN  IF hash \notin {"sha256", "sha1"}
         THEN Start(p, "DKIMAdd", arg, "done", "request", "unknown hash algorithm")
         ELSE IF algorithm \notin {"rsa", "ed25519"} \/ keygen
         THEN Start(p, "DKIMAdd", arg, "done", "request", "making dkim key")
         ELSE Start(p, "DKIMAdd", arg, "lock", "", "")
  /\ UNCHANGED <<Conf, ADL, files, old, lock, now, tlspubkeys, queue, accountDirs>>

\* DKIMAddBegin that reads the configuration without waiting for the lock.
DKIMAddBeginUnlocked(p) ==
  /\ call[p].pc = "lock" /\ call[p].op = "DKIMAdd"
  /\ ReadConfig(p, "body")
  /\ UNCHANGED <<Conf, ADL, files, old, lock, now, tlspubkeys, queue, accountDirs, ncalls>>

DKIMAddBegin(p) ==
  /\ call[p].pc = "lock" /\ call[p].op = "DKIMAdd"
  /\ DynamicLock(p)
  /\ ReadConfig(p, "body")
  /\ UNCHANGED <<Conf, ADL, files, old, now, tlspubkeys, queue, accountDirs, ncalls>>

\* DKIMAddBody that writes the key file before it looks the domain and the
\* selector up.
DKIMAddBodyWriteFirst(p) ==
  /\ call[p].pc = "body" /\ call[p].op = "DKIMAdd"
  /\ LET a == call[p].arg
         c == call[p].c
         kind == IF a.algorithm = "rsa" THEN "rsa2048" ELSE "ed25519"
         privKey == IF a.algorithm = "rsa" THEN MakeDKIMRSAKey(a.selector, a.domain, ncalls)
                    ELSE MakeDKIMEd25519Key(a.selector, a.domain, ncalls)
         name == KeyName(a.selector, a.domain, now, kind)
     IN  \E fault \in WriteFaults :
           LET w == writeFile(files, name, privKey, fault)
           IN  /\ files' = w.fs
               /\ IF w.err
                  THEN Fail(p, "ret", "internal", "writing key file")
                  ELSE IF ~Has(c.Domains, a.domain)
                  THEN call' = [call EXCEPT ![p].pc = "ret", ![p].err = "request",
                                            ![p].why = "domain does not exist",
                                            ![p].paths = {name}, ![p].made = {name}]
                  ELSE IF Has(c.Domains[a.domain].Selectors, a.selector)
                  THEN call' = [call EXCEPT ![p].pc = "ret", ![p].err = "request",
                                            ![p].why = "selector already exists for domain",
                                            ![p].paths = {name}, ![p].made = {name}]
                  ELSE LET d == c.Domains[a.domain]
                           nd == [d EXCEPT !.Selectors = Put(d.Selectors, a.selector,
                                                             Selector(a.hash, name))]
                       IN  call' = [call EXCEPT
                             ![p].pc = "pub",
                             ![p].paths = {name},
                             ![p].made = {name},
                             ![p].nc = [c EXCEPT !.Domains = Put(c.Domains, a.domain, nd)]]
  /\ UNCHANGED <<Conf, ADL, old, lock, now, tlspubkeys, queue, accountDirs, ncalls>>

\* DKIMAdd from the domain lookup to the composed configuration.
\* DKIMAddBody that also signs with the new selector.
DKIMAddBodySigning(p) ==
  /\ call[p].pc = "body" /\ call[p].op = "DKIMAdd"
  /\ LET a == call[p].arg
         c == call[p].c
         kind == IF a.algorithm = "rsa" THEN "rsa2048" ELSE "ed25519"
         privKey == IF a.algorithm = "rsa" THEN MakeDKIMRSAKey(a.selector, a.domain, ncalls)
                    ELSE MakeDKIMEd25519Key(a.selector, a.domain, ncalls)
         name == KeyName(a.selector, a.domain, now, kind)
     IN  IF ~Has(c.Domains, a.domain)
         THEN Fail(p, "ret", "request", "domain does not exist") /\ UNCHANGED files
         ELSE IF Has(c.Domains[a.domain].Selectors, a.selector)
         THEN Fail(p, "ret", "request", "selector already exists for domain")
              /\ UNCHANGED files
         ELSE \E fault \in WriteFaults :
                LET w == writeFile(files, name, privKey, fault)
                    d == c.Domains[a.domain]
                    nd == [d EXCEPT !.Selectors = Put(d.Selectors, a.selector,
                                                      Selector(a.hash, name)),
                                   !.Sign = Append(d.Sign, a.selector)]
                IN  /\ files' = w.fs
                    /\ IF w.err
                       THEN Fail(p, "ret", "internal", "writing key file")
                       ELSE call' = [call EXCEPT
                              ![p].pc = "pub",
                              ![p].paths = {name},
                              ![p].made = {name},
                              ![p].nc = [c EXCEPT !.Domains = Put(c.Domains, a.domain, nd)]]
  /\ UNCHANGED <<Conf, ADL, old, lock, now, tlspubkeys, queue, accountDirs, ncalls>>

DKIMAddBody(p) ==
  /\ call[p].pc = "body" /\ call[p].op = "DKIMAdd"
  /\ LET a == call[p].arg
         c == call[p].c
         kind == IF a.algorithm = "rsa" THEN "rsa2048" ELSE "ed25519"
         privKey == IF a.algorithm = "rsa" THEN MakeDKIMRSAKey(a.selector, a.domain, ncalls)
                    ELSE MakeDKIMEd25519Key(a.selector, a.domain, ncalls)
         name == KeyName(a.selector, a.domain, now, kind)
     IN  IF ~Has(c.Domains, a.domain)
         THEN Fail(p, "ret", "request", "domain does not exist") /\ UNCHANGED files
         ELSE IF Has(c.Domains[a.domain].Selectors, a.selector)
         THEN Fail(p, "ret", "request", "selector already exists for domain")
              /\ UNCHANGED files
         ELSE \E fault \in WriteFaults :
                LET w == writeFile(files, name, privKey, fault)
                    d == c.Domains[a.domain]
                    nd == [d EXCEPT !.Selectors = Put(d.Selectors, a.selector,
                                                      Selector(a.hash, name))]
                IN  /\ files' = w.fs
                    /\ IF w.err
                       THEN Fail(p, "ret", "internal", "writing key file")
                       ELSE call' = [call EXCEPT
                              ![p].pc = "pub",
                              ![p].paths = {name},
                              ![p].made = {name},
                              ![p].nc = [c EXCEPT !.Domains = Put(c.Domains, a.domain, nd)]]
  /\ UNCHANGED <<Conf, ADL, old, lock, now, tlspubkeys, queue, accountDirs, ncalls>>

DKIMAdd(p) ==
  \/ DKIMAddBegin(p)
  \/ DKIMAddBody(p)

\* ------------------------------------------------------------------ DKIMRemove

DKIMRemoveCall(p, domain, selector) ==
  /\ Start(p, "DKIMRemove", [domain |-> domain, selector |-> selector], "lock", "", "")
  /\ UNCHANGED <<Conf, ADL, files, old, lock, now, tlspubkeys, queue, accountDirs>>

DKIMRemoveBegin(p) ==
  /\ call[p].pc = "lock" /\ call[p].op = "DKIMRemove"
  /\ DynamicLock(p)
  /\ ReadConfig(p, "body")
  /\ UNCHANGED <<Conf, ADL, files, old, now, tlspubkeys, queue, accountDirs, ncalls>>

\* The Sign list without the removed selector, in order.
RECURSIVE WithoutName(_, _)
WithoutName(sign, name) ==
  IF sign = <<>> THEN <<>>
  ELSE IF Head(sign) = name THEN WithoutName(Tail(sign), name)
  ELSE <<Head(sign)>> \o WithoutName(Tail(sign), name)

\* DKIMRemoveBody that takes the removal of a selector that does not exist
\* for done.
DKIMRemoveBodyLenient(p) ==
  /\ call[p].pc = "body" /\ call[p].op = "DKIMRemove"
  /\ LET a == call[p].arg
         c == call[p].c
     IN  IF ~Has(c.Domains, a.domain)
         THEN Fail(p, "ret", "request", "domain does not exist")
         ELSE IF ~Has(c.Domains[a.domain].Selectors, a.selector)
         THEN call' = [call EXCEPT ![p].pc = "ret"]
         ELSE LET d == c.Domains[a.domain]
                  nd == [d EXCEPT !.Selectors = Del(d.Selectors, a.selector),
                                  !.Sign = WithoutName(d.Sign, a.selector)]
              IN  call' = [call EXCEPT
                     ![p].pc = "pub",
                     ![p].nc = [c EXCEPT !.Domains = Put(c.Domains, a.domain, nd)]]
  /\ UNCHANGED <<Conf, ADL, files, old, lock, now, tlspubkeys, queue, accountDirs, ncalls>>

DKIMRemoveBody(p) ==
  /\ call[p].pc = "body" /\ call[p].op = "DKIMRemove"
  /\ LET a == call[p].arg
         c == call[p].c
     IN  IF ~Has(c.Domains, a.domain)
         THEN Fail(p, "ret", "request", "domain does not exist")
         ELSE IF ~Has(c.Domains[a.domain].Selectors, a.selector)
         THEN Fail(p, "ret", "request", "selector does not exist for domain")
         ELSE LET d == c.Domains[a.domain]
                  nd == [d EXCEPT !.Selectors = Del(d.Selectors, a.selector),
                                  !.Sign = WithoutName(d.Sign, a.selector)]
              IN  call' = [call EXCEPT
                     ![p].pc = "pub",
                     ![p].nc = [c EXCEPT !.Domains = Put(c.Domains, a.domain, nd)]]
  /\ UNCHANGED <<Conf, ADL, files, old, lock, now, tlspubkeys, queue, accountDirs, ncalls>>

\* After the configuration is written: the key of the removed selector is
\* moved away unless the new configuration still uses it.
DKIMRemovePost(p) ==
  /\ call[p].pc = "post" /\ call[p].op = "DKIMRemove"
  /\ LET a == call[p].arg
         sel == call[p].c.Domains[a.domain].Selectors[a.selector]
         r == moveAwayKeys(files, old, Put(EmptyMap, a.selector, sel),
                           gatherUsedKeysPaths(call[p].nc))
     IN  /\ files' = r.files
         /\ old' = r.old
  /\ call' = [call EXCEPT ![p].pc = "ret"]
  /\ UNCHANGED <<Conf, ADL, lock, now, tlspubkeys, queue, accountDirs, ncalls>>

DKIMRemove(p) ==
  \/ DKIMRemoveBegin(p)
  \/ DKIMRemoveBody(p)
  \/ DKIMRemovePost(p)

\* ------------------------------------------------------------------ DomainAdd

\* mox.Conf.Static.Postmaster.Account
PostmasterAccount == "a1"

DomainAddCall(p, domain, accountName, localpart) ==
  /\ Start(p, "DomainAdd",
           [domain |-> domain, accountName |-> accountName, localpart |-> localpart],
           "lock", "", "")
  /\ UNCHANGED <<Conf, ADL, files, old, lock, now, tlspubkeys, queue, accountDirs>>

DomainAddBegin(p) ==
  /\ call[p].pc = "lock" /\ call[p].op = "DomainAdd"
  /\ DynamicLock(p)
  /\ ReadConfig(p, "body")
  /\ UNCHANGED <<Conf, ADL, files, old, now, tlspubkeys, queue, accountDirs, ncalls>>

\* DomainAdd from the domain lookup to the domain config with its key files:
\* nc gets a new Domains map, and shares the Accounts map with c.
DomainAddMake(p) ==
  /\ call[p].pc = "body" /\ call[p].op = "DomainAdd"
  /\ LET a == call[p].arg
         c == call[p].c
     IN  IF Has(c.Domains, a.domain)
         THEN Fail(p, "ret", "request", "domain already present") /\ UNCHANGED files
         ELSE \E f1, f2 \in Faults :
                LET r == MakeDomainConfig(files, a.domain, a.accountName, now, ncalls, f1, f2)
                    first == KeyName("ya", a.domain, now, "rsa2048")
                IN  /\ files' = r.fs
                    /\ IF r.err
                       THEN call' = [call EXCEPT
                              ![p].pc = "ret", ![p].err = "internal",
                              ![p].why = "preparing domain config",
                              ![p].made = IF f1 = "none" /\ ~Has(files, first)
                                          THEN {first} ELSE {}]
                       ELSE call' = [call EXCEPT
                              ![p].pc = "accounts",
                              ![p].d = r.dom,
                              ![p].paths = r.paths,
                              ![p].made = r.paths,
                              ![p].nc = c]
  /\ UNCHANGED <<Conf, ADL, old, lock, now, tlspubkeys, queue, accountDirs, ncalls>>

\* DomainAdd from the account checks to the composed configuration. The
\* account is written into nc.Accounts, which is the map the published
\* configuration holds.
DomainAddAccounts(p) ==
  /\ call[p].pc = "accounts" /\ call[p].op = "DomainAdd"
  /\ LET a == call[p].arg
         c == call[p].c
         ok == Has(c.Accounts, a.accountName)
         withDomain(accounts) ==
           [call[p].nc EXCEPT !.Domains = Put(call[p].nc.Domains, a.domain, call[p].d),
                              !.Accounts = accounts]
     IN  IF ok /\ a.localpart # <<>>
         THEN Fail(p, "ret", "request", "account already exists") /\ UNCHANGED Conf
         ELSE IF ~ok /\ a.localpart = <<>>
         THEN Fail(p, "ret", "request", "account does not yet exist") /\ UNCHANGED Conf
         ELSE IF a.accountName = ""
         THEN Fail(p, "ret", "request", "account name is empty") /\ UNCHANGED Conf
         ELSE IF ~ok
         THEN LET accounts == Put(Conf.Accounts, a.accountName,
                                  MakeAccountConfig(Address(a.localpart, a.domain)))
              IN  /\ Conf' = [Conf EXCEPT !.Accounts = accounts]
                  /\ call' = [call EXCEPT ![p].pc = "pub", ![p].nc = withDomain(accounts)]
         ELSE IF a.accountName # PostmasterAccount
         THEN LET nacc == Conf.Accounts[a.accountName]
                  nd == nacc.Destinations \cup {Address(Postmaster, a.domain)}
                  accounts == Put(Conf.Accounts, a.accountName,
                                  [nacc EXCEPT !.Destinations = nd])
              IN  /\ Conf' = [Conf EXCEPT !.Accounts = accounts]
                  /\ call' = [call EXCEPT ![p].pc = "pub", ![p].nc = withDomain(accounts)]
         ELSE /\ UNCHANGED Conf
              /\ call' = [call EXCEPT ![p].pc = "pub", ![p].nc = withDomain(Conf.Accounts)]
  /\ UNCHANGED <<ADL, files, old, lock, now, tlspubkeys, queue, accountDirs, ncalls>>

DomainAdd(p) ==
  \/ DomainAddBegin(p)
  \/ DomainAddMake(p)
  \/ DomainAddAccounts(p)

\* ------------------------------------------------------------------ DomainRemove

DomainRemoveCall(p, domain) ==
  /\ Start(p, "DomainRemove", [domain |-> domain], "lock", "", "")
  /\ UNCHANGED <<Conf, ADL, files, old, lock, now, tlspubkeys, queue, accountDirs>>

DomainRemoveBegin(p) ==
  /\ call[p].pc = "lock" /\ call[p].op = "DomainRemove"
  /\ DynamicLock(p)
  /\ ReadConfig(p, "body")
  /\ UNCHANGED <<Conf, ADL, files, old, now, tlspubkeys, queue, accountDirs, ncalls>>

\* HasSuffixAtDomain that compares the whole login address with the domain.
EqualsDomain(loginAddress, domain) == loginAddress = domain

\* strings.HasSuffix(loginAddress, "@"+domain): a domain name holds no "@", so
\* the suffix "@"+domain is the text after the last "@" of the login address.
HasSuffixAtDomain(loginAddress, domain) ==
  loginAddress[2] = domain

\* DomainRemove from the domain lookup to the composed configuration; listing
\* says that store.TLSPublicKeyList fails.
DomainRemoveBody(p) ==
  /\ call[p].pc = "body" /\ call[p].op = "DomainRemove"
  /\ LET a == call[p].arg
         c == call[p].c
     IN  IF ~Has(c.Domains, a.domain)
         THEN Fail(p, "ret", "request", "domain does not exist")
         ELSE \E listing \in BOOLEAN :
                IF listing
                THEN Fail(p, "ret", "request", "listing tls public keys")
                ELSE IF \E tpk \in tlspubkeys : HasSuffixAtDomain(tpk.LoginAddress, a.domain)
                THEN Fail(p, "ret", "request", "domain is still referenced in tls public key")
                ELSE call' = [call EXCEPT
                       ![p].pc = "pub",
                       ![p].nc = [c EXCEPT !.Domains = Del(c.Domains, a.domain)]]
  /\ UNCHANGED <<Conf, ADL, files, old, lock, now, tlspubkeys, queue, accountDirs, ncalls>>

\* After the configuration is written: the keys of the removed domain are
\* moved away unless the new configuration still uses them.
DomainRemovePost(p) ==
  /\ call[p].pc = "post" /\ call[p].op = "DomainRemove"
  /\ LET domConf == call[p].c.Domains[call[p].arg.domain]
         r == moveAwayKeys(files, old, domConf.Selectors, gatherUsedKeysPaths(call[p].nc))
     IN  /\ files' = r.files
         /\ old' = r.old
  /\ call' = [call EXCEPT ![p].pc = "ret"]
  /\ UNCHANGED <<Conf, ADL, lock, now, tlspubkeys, queue, accountDirs, ncalls>>

DomainRemove(p) ==
  \/ DomainRemoveBegin(p)
  \/ DomainRemoveBody(p)
  \/ DomainRemovePost(p)

\* ------------------------------------------------------------------ AccountAdd, AddressAdd

\* checkAddressAvailable that does not look addr up in the destinations.
checkAddressAvailableNoLookup(addr) ==
  IF ~Has(Conf.Domains, addr[2]) THEN "domain does not exist"
  ELSE LET dc == Conf.Domains[addr[2]]
           lp == CanonicalLocalpart(addr[1], dc)
       IN  IF dc.Sep # "" /\ Contains(addr[1], dc.Sep)
           THEN "localpart cannot include domain catchall separator"
           ELSE IF Has(dc.Aliases, lp) THEN "address in use as alias"
           ELSE ""

\* checkAddressAvailable that does not look for an alias of the address.
checkAddressAvailableNoAlias(addr) ==
  IF ~Has(Conf.Domains, addr[2]) THEN "domain does not exist"
  ELSE LET dc == Conf.Domains[addr[2]]
           lp == CanonicalLocalpart(addr[1], dc)
       IN  IF Has(ADL, Address(lp, addr[2])) THEN "canonicalized address already configured"
           ELSE IF dc.Sep # "" /\ Contains(addr[1], dc.Sep)
           THEN "localpart cannot include domain catchall separator"
           ELSE ""

\* checkAddressAvailable: "" when addr can be added, else what is wrong. It
\* reads the published configuration and AccountDestinationsLocked.
checkAddressAvailable(addr) ==
  IF ~Has(Conf.Domains, addr[2]) THEN "domain does not exist"
  ELSE LET dc == Conf.Domains[addr[2]]
           lp == CanonicalLocalpart(addr[1], dc)
       IN  IF Has(ADL, Address(lp, addr[2])) THEN "canonicalized address already configured"
           ELSE IF dc.Sep # "" /\ Contains(addr[1], dc.Sep)
           THEN "localpart cannot include domain catchall separator"
           ELSE IF Has(dc.Aliases, lp) THEN "address in use as alias"
           ELSE ""

\* AccountAdd up to taking the lock: the address is parsed (a catchall is no
\* address).
AccountAddCall(p, account, address) ==
  /\ LET arg == [account |-> account, address |-> address]
     IN  IF IsCatchall(address)
         THEN Start(p, "AccountAdd", arg, "done", "request", "parsing email address")
         ELSE Start(p, "AccountAdd", arg, "lock", "", "")
  /\ UNCHANGED <<Conf, ADL, files, old, lock, now, tlspubkeys, queue, accountDirs>>

AccountAddBegin(p) ==
  /\ call[p].pc = "lock" /\ call[p].op = "AccountAdd"
  /\ DynamicLock(p)
  /\ ReadConfig(p, "body")
  /\ UNCHANGED <<Conf, ADL, files, old, now, tlspubkeys, queue, accountDirs, ncalls>>

\* AccountAddBody that does not look at the account directory.
AccountAddBodyNoStat(p) ==
  /\ call[p].pc = "body" /\ call[p].op = "AccountAdd"
  /\ LET a == call[p].arg
         c == call[p].c
     IN  IF Has(c.Accounts, a.account)
         THEN Fail(p, "ret", "request", "account already present")
         ELSE IF checkAddressAvailable(a.address) # ""
         THEN Fail(p, "ret", "request", checkAddressAvailable(a.address))
         ELSE call' = [call EXCEPT
                ![p].pc = "pub",
                ![p].nc = [c EXCEPT !.Accounts =
                             Put(c.Accounts, a.account, MakeAccountConfig(a.address))]]
  /\ UNCHANGED <<Conf, ADL, files, old, lock, now, tlspubkeys, queue, accountDirs, ncalls>>

\* AccountAdd from the account lookup to the composed configuration; stat
\* says that os.Stat of the account directory fails other than with "does not
\* exist".
AccountAddBody(p) ==
  /\ call[p].pc = "body" /\ call[p].op = "AccountAdd"
  /\ LET a == call[p].arg
         c == call[p].c
     IN  IF Has(c.Accounts, a.account)
         THEN Fail(p, "ret", "request", "account already present")
         ELSE \E stat \in BOOLEAN :
                IF a.account \in accountDirs
                THEN Fail(p, "ret", "request", "account directory already/still exists")
                ELSE IF stat
                THEN Fail(p, "ret", "request", "stat account directory")
                ELSE IF checkAddressAvailable(a.address) # ""
                THEN Fail(p, "ret", "request", checkAddressAvailable(a.address))
                ELSE call' = [call EXCEPT
                       ![p].pc = "pub",
                       ![p].nc = [c EXCEPT !.Accounts =
                                    Put(c.Accounts, a.account, MakeAccountConfig(a.address))]]
  /\ UNCHANGED <<Conf, ADL, files, old, lock, now, tlspubkeys, queue, accountDirs, ncalls>>

AccountAdd(p) ==
  \/ AccountAddBegin(p)
  \/ AccountAddBody(p)

AddressAddCall(p, address, account) ==
  /\ Start(p, "AddressAdd", [address |-> address, account |-> account], "lock", "", "")
  /\ UNCHANGED <<Conf, ADL, files, old, lock, now, tlspubkeys, queue, accountDirs>>

\* AddressAddBegin that reads the configuration without waiting for the lock.
AddressAddBeginUnlocked(p) ==
  /\ call[p].pc = "lock" /\ call[p].op = "AddressAdd"
  /\ ReadConfig(p, "body")
  /\ UNCHANGED <<Conf, ADL, files, old, lock, now, tlspubkeys, queue, accountDirs, ncalls>>

AddressAddBegin(p) ==
  /\ call[p].pc = "lock" /\ call[p].op = "AddressAdd"
  /\ DynamicLock(p)
  /\ ReadConfig(p, "body")
  /\ UNCHANGED <<Conf, ADL, files, old, now, tlspubkeys, queue, accountDirs, ncalls>>

\* AddressAdd from the account lookup to the composed configuration.
AddressAddBody(p) ==
  /\ call[p].pc = "body" /\ call[p].op = "AddressAdd"
  /\ LET a == call[p].arg
         c == call[p].c
         why == IF IsCatchall(a.address)
                THEN IF ~Has(Conf.Domains, a.address[2]) THEN "domain does not exist"
                     ELSE IF Has(ADL, a.address)
                     THEN "catchall address already configured for domain"
                     ELSE ""
                ELSE checkAddressAvailable(a.address)
     IN  IF ~Has(c.Accounts, a.account)
         THEN Fail(p, "ret", "request", "account does not exist")
         ELSE IF why # ""
         THEN Fail(p, "ret", "request", why)
         ELSE LET acc == c.Accounts[a.account]
                  nd == acc.Destinations \cup {a.address}
              IN  call' = [call EXCEPT
                     ![p].pc = "pub",
                     ![p].nc = [c EXCEPT !.Accounts =
                                  Put(c.Accounts, a.account, [acc EXCEPT !.Destinations = nd])]]
  /\ UNCHANGED <<Conf, ADL, files, old, lock, now, tlspubkeys, queue, accountDirs, ncalls>>

AddressAdd(p) ==
  \/ AddressAddBegin(p)
  \/ AddressAddBody(p)

\* ------------------------------------------------------------------ AddressRemove

AddressRemoveCall(p, address) ==
  /\ Start(p, "AddressRemove", [address |-> address], "lock", "", "")
  /\ UNCHANGED <<Conf, ADL, files, old, lock, now, tlspubkeys, queue, accountDirs>>

AddressRemoveBegin(p) ==
  /\ call[p].pc = "lock" /\ call[p].op = "AddressRemove"
  /\ DynamicLock(p)
  /\ ReadConfig(p, "body")
  /\ UNCHANGED <<Conf, ADL, files, old, now, tlspubkeys, queue, accountDirs, ncalls>>

\* The orders in which a set can be ranged over.
Orders(S) == {f \in [1..Cardinality(S) -> S] : \A i, j \in 1..Cardinality(S) : f[i] = f[j] => i = j}

\* slices.DeleteFunc(slices.Clone(addresses), func(v) { return v == address })
RECURSIVE DeleteAddress(_, _)
DeleteAddress(addresses, address) ==
  IF addresses = <<>> THEN <<>>
  ELSE IF Head(addresses) = address THEN DeleteAddress(Tail(addresses), address)
  ELSE <<Head(addresses)>> \o DeleteAddress(Tail(addresses), address)

\* The loop over na.Aliases: address is removed as member from each alias it
\* is subscribed to. Each round takes the domain from the published
\* configuration conf and stores the changed domain in domains.
RECURSIVE RemoveFromAliases(_, _, _, _)
RemoveFromAliases(refs, address, conf, domains) ==
  IF refs = <<>> THEN [why |-> "", domains |-> domains]
  ELSE LET aa == Head(refs)
       IN  IF aa.SubscriptionAddress # address
           THEN RemoveFromAliases(Tail(refs), address, conf, domains)
           ELSE IF ~Has(conf.Domains, aa.Alias[2])
           THEN [why |-> "cannot find domain for alias", domains |-> domains]
           ELSE IF ~Has(conf.Domains[aa.Alias[2]].Aliases, aa.Alias[1])
           THEN [why |-> "cannot find alias", domains |-> domains]
           ELSE LET dom == conf.Domains[aa.Alias[2]]
                    al == dom.Aliases[aa.Alias[1]]
                    addrs == DeleteAddress(al.Addresses, address)
                    ndom == [dom EXCEPT !.Aliases =
                               Put(dom.Aliases, aa.Alias[1], [al EXCEPT !.Addresses = addrs])]
                IN  IF Len(addrs) = 0
                    THEN [why |-> "address is last member of alias", domains |-> domains]
                    ELSE RemoveFromAliases(Tail(refs), address, conf,
                                           Put(domains, aa.Alias[2], ndom))

\* QueuedMessageCheck that lets every removal of a catchall address pass.
QueuedMessageCheckPlain(m, address, account) ==
  IF ~Has(Conf.Domains, m.Sender[2]) THEN "unknown sender domain in queued message"
  ELSE LET lp == CanonicalLocalpart(m.Sender[1], Conf.Domains[m.Sender[2]])
           sa == Address(lp, m.Sender[2])
           catchall == Address(<<>>, m.Sender[2])
       IN  IF IsCatchall(address) THEN ""
           ELSE IF (~Has(ADL, catchall) \/ ADL[catchall].Account # account) /\ sa = address
                THEN "queued message with sender address and no catchall address"
                ELSE ""

\* The check of one queued message of the account: "" when the message
\* allows removing address, else what is wrong.
QueuedMessageCheck(m, address, account) ==
  IF ~Has(Conf.Domains, m.Sender[2]) THEN "unknown sender domain in queued message"
  ELSE LET lp == CanonicalLocalpart(m.Sender[1], Conf.Domains[m.Sender[2]])
           sa == Address(lp, m.Sender[2])
           catchall == Address(<<>>, m.Sender[2])
       IN  IF IsCatchall(address)
           THEN IF ~Has(ADL, sa) \/ ADL[sa].Account # account
                THEN "queued message depends on the catchall address"
                ELSE ""
           ELSE IF (~Has(ADL, catchall) \/ ADL[catchall].Account # account) /\ sa = address
                THEN "queued message with sender address and no catchall address"
                ELSE ""

\* The check of one TLS public key of the account against the address that is
\* removed, dc being the domain of that address.
TLSPublicKeyBlocks(tpk, dc, ad) ==
  LET lp == CanonicalLocalpart(tpk.LoginAddress[1], dc)
      ca == Address(lp, tpk.LoginAddress[2])
  IN  Has(ADL, ca) /\ ADL[ca].Localpart = ad.Localpart

\* AddressRemove from the address lookup to the composed configuration;
\* listing and listq say that store.TLSPublicKeyList and queue.List fail.
AddressRemoveBody(p) ==
  /\ call[p].pc = "body" /\ call[p].op = "AddressRemove"
  /\ LET address == call[p].arg.address
     IN  IF ~Has(ADL, address)
         THEN Fail(p, "ret", "request", "address does not exists")
         ELSE IF ~Has(Conf.Accounts, ADL[address].Account)
         THEN Fail(p, "ret", "internal", "cannot find account")
         ELSE IF address \notin Conf.Accounts[ADL[address].Account].Destinations
         THEN Fail(p, "ret", "request", "address not removed")
         ELSE IF ~Has(Conf.Domains, address[2])
         THEN Fail(p, "ret", "request", "unknown domain in address")
         ELSE
           LET ad == ADL[address]
               a == Conf.Accounts[ad.Account]
               dc == Conf.Domains[address[2]]
               keys == {tpk \in tlspubkeys : tpk.Account = ad.Account}
               msgs == {m \in queue : m.Account = ad.Account}
               bad == {m \in msgs : QueuedMessageCheck(m, address, ad.Account) # ""}
           IN  \E listing, listq \in BOOLEAN, refs \in Orders(a.Aliases) :
                 LET r == RemoveFromAliases(refs, address, Conf, Conf.Domains)
                     na == [a EXCEPT !.Destinations = a.Destinations \ {address},
                                     !.Aliases = {}]
                 IN  IF listing
                     THEN Fail(p, "ret", "request", "listing tls public keys for account")
                     ELSE IF \E tpk \in keys : TLSPublicKeyBlocks(tpk, dc, ad)
                     THEN Fail(p, "ret", "request", "tls public key references this address")
                     ELSE IF r.why # ""
                     THEN Fail(p, "ret", "internal", r.why)
                     ELSE IF listq
                     THEN Fail(p, "ret", "internal", "listing messages in queue for account")
                     ELSE IF bad # {}
                     THEN \E m \in bad :
                            Fail(p, "ret", "request", QueuedMessageCheck(m, address, ad.Account))
                     ELSE call' = [call EXCEPT
                            ![p].pc = "pub",
                            ![p].nc = [Conf EXCEPT
                                         !.Domains = r.domains,
                                         !.Accounts = Put(Conf.Accounts, ad.Account, na)]]
  /\ UNCHANGED <<Conf, ADL, files, old, lock, now, tlspubkeys, queue, accountDirs, ncalls>>

AddressRemove(p) ==
  \/ AddressRemoveBegin(p)
  \/ AddressRemoveBody(p)

\* ------------------------------------------------------------------ DomainSave and the alias handlers

\* slices.DeleteFunc over the members of the alias, whose callback deletes
\* the member from the addresses still to remove: a member is deleted when
\* it was among them. The result is the remaining members and the addresses
\* that were not found.
RECURSIVE DeleteMembers(_, _)
DeleteMembers(members, addresses) ==
  IF members = <<>> THEN [members |-> <<>>, addresses |-> addresses]
  ELSE LET rest == DeleteAddress(addresses, Head(members))
           r == DeleteMembers(Tail(members), rest)
       IN  IF Len(addresses) > Len(rest) THEN r
           ELSE [members |-> <<Head(members)>> \o r.members, addresses |-> r.addresses]

\* The xmodify functions of the alias handlers, applied to the domain config
\* d: the error class and text, and the changed domain config.
AliasAddModify(d, a) ==
  IF Has(d.Aliases, a.addr[1])
  THEN [err |-> "request", why |-> "alias already present", d |-> d]
  ELSE [err |-> "", why |-> "", d |-> [d EXCEPT !.Aliases = Put(d.Aliases, a.addr[1], a.alias)]]

\* AliasUpdateModify that stores the alias it was given.
AliasUpdateModifyWhole(d, a) ==
  IF ~Has(d.Aliases, a.addr[1])
  THEN [err |-> "request", why |-> "alias does not exist", d |-> d]
  ELSE [err |-> "", why |-> "", d |-> [d EXCEPT !.Aliases = Put(d.Aliases, a.addr[1], a.alias)]]

AliasUpdateModify(d, a) ==
  IF ~Has(d.Aliases, a.addr[1])
  THEN [err |-> "request", why |-> "alias does not exist", d |-> d]
  ELSE LET na == [d.Aliases[a.addr[1]] EXCEPT !.PostPublic = a.alias.PostPublic,
                                              !.ListMembers = a.alias.ListMembers,
                                              !.AllowMsgFrom = a.alias.AllowMsgFrom]
       IN  [err |-> "", why |-> "", d |-> [d EXCEPT !.Aliases = Put(d.Aliases, a.addr[1], na)]]

\* AliasRemoveModify that does not look whether the alias exists.
AliasRemoveModifyUnchecked(d, a) ==
  [err |-> "", why |-> "", d |-> [d EXCEPT !.Aliases = Del(d.Aliases, a.addr[1])]]

AliasRemoveModify(d, a) ==
  IF ~Has(d.Aliases, a.addr[1])
  THEN [err |-> "request", why |-> "alias does not exist", d |-> d]
  ELSE [err |-> "", why |-> "", d |-> [d EXCEPT !.Aliases = Del(d.Aliases, a.addr[1])]]

AliasAddressesAddModify(d, a) ==
  IF ~Has(d.Aliases, a.addr[1])
  THEN [err |-> "request", why |-> "no such alias", d |-> d]
  ELSE LET alias == d.Aliases[a.addr[1]]
           nalias == [alias EXCEPT !.Addresses = alias.Addresses \o a.addresses]
       IN  [err |-> "", why |-> "", d |-> [d EXCEPT !.Aliases = Put(d.Aliases, a.addr[1], nalias)]]

\* AliasAddressesRemoveModify that does not look whether addresses are left
\* over.
AliasAddressesRemoveModifyNoLeftover(d, a) ==
  IF ~Has(d.Aliases, a.addr[1])
  THEN [err |-> "request", why |-> "no such alias", d |-> d]
  ELSE LET alias == d.Aliases[a.addr[1]]
           r == DeleteMembers(alias.Addresses, a.addresses)
           nalias == [alias EXCEPT !.Addresses = r.members]
       IN  [err |-> "", why |-> "",
            d |-> [d EXCEPT !.Aliases = Put(d.Aliases, a.addr[1], nalias)]]

AliasAddressesRemoveModify(d, a) ==
  IF ~Has(d.Aliases, a.addr[1])
  THEN [err |-> "request", why |-> "no such alias", d |-> d]
  ELSE LET alias == d.Aliases[a.addr[1]]
           r == DeleteMembers(alias.Addresses, a.addresses)
           nalias == [alias EXCEPT !.Addresses = r.members]
       IN  IF Len(r.addresses) > 0
           THEN [err |-> "request", why |-> "address not found", d |-> d]
           ELSE [err |-> "", why |-> "",
                 d |-> [d EXCEPT !.Aliases = Put(d.Aliases, a.addr[1], nalias)]]

\* The xmodify of a caller of DomainSave itself: it sets the catchall
\* separator of the domain, or it panics.
SetSeparator(d, a) ==
  IF a.panics
  THEN [err |-> "panic", why |-> "xmodify panics", d |-> d]
  ELSE [err |-> "", why |-> "", d |-> [d EXCEPT !.Sep = a.sep]]

xmodify(op, d, a) ==
  CASE op = "DomainSave" -> SetSeparator(d, a)
    [] op = "AliasAdd" -> AliasAddModify(d, a)
    [] op = "AliasUpdate" -> AliasUpdateModify(d, a)
    [] op = "AliasRemove" -> AliasRemoveModify(d, a)
    [] op = "AliasAddressesAdd" -> AliasAddressesAddModify(d, a)
    [] op = "AliasAddressesRemove" -> AliasAddressesRemoveModify(d, a)

DomainSaveOps == {"DomainSave", "AliasAdd", "AliasUpdate", "AliasRemove", "AliasAddressesAdd",
                  "AliasAddressesRemove"}

\* DomainSave called directly; like the alias handlers it names the domain by
\* an address of the domain.
DomainSaveCall(p, domainName, sep, panics) ==
  /\ Start(p, "DomainSave", [addr |-> Address(<<>>, domainName), sep |-> sep, panics |-> panics],
           "lock", "", "")
  /\ UNCHANGED <<Conf, ADL, files, old, lock, now, tlspubkeys, queue, accountDirs>>

AliasAddCall(p, addr, alias) ==
  /\ Start(p, "AliasAdd", [addr |-> addr, alias |-> alias], "lock", "", "")
  /\ UNCHANGED <<Conf, ADL, files, old, lock, now, tlspubkeys, queue, accountDirs>>

AliasUpdateCall(p, addr, alias) ==
  /\ Start(p, "AliasUpdate", [addr |-> addr, alias |-> alias], "lock", "", "")
  /\ UNCHANGED <<Conf, ADL, files, old, lock, now, tlspubkeys, queue, accountDirs>>

AliasRemoveCall(p, addr) ==
  /\ Start(p, "AliasRemove", [addr |-> addr], "lock", "", "")
  /\ UNCHANGED <<Conf, ADL, files, old, lock, now, tlspubkeys, queue, accountDirs>>

\* AliasAddressesAdd and AliasAddressesRemove up to DomainSave: at least one
\* address is needed.
AliasAddressesAddCall(p, addr, addresses) ==
  /\ LET arg == [addr |-> addr, addresses |-> addresses]
     IN  IF Len(addresses) = 0
         THEN Start(p, "AliasAddressesAdd", arg, "done", "request", "at least one address required")
         ELSE Start(p, "AliasAddressesAdd", arg, "lock", "", "")
  /\ UNCHANGED <<Conf, ADL, files, old, lock, now, tlspubkeys, queue, accountDirs>>

AliasAddressesRemoveCall(p, addr, addresses) ==
  /\ LET arg == [addr |-> addr, addresses |-> addresses]
     IN  IF Len(addresses) = 0
         THEN Start(p, "AliasAddressesRemove", arg, "done", "request", "need at least one address")
         ELSE Start(p, "AliasAddressesRemove", arg, "lock", "", "")
  /\ UNCHANGED <<Conf, ADL, files, old, lock, now, tlspubkeys, queue, accountDirs>>

DomainSaveBegin(p) ==
  /\ call[p].pc = "lock" /\ call[p].op \in DomainSaveOps
  /\ DynamicLock(p)
  /\ ReadConfig(p, "body")
  /\ UNCHANGED <<Conf, ADL, files, old, now, tlspubkeys, queue, accountDirs, ncalls>>

\* DomainSaveBody that stores the changed domain in the Domains map of the
\* published configuration.
DomainSaveBodyInPlace(p) ==
  /\ call[p].pc = "body" /\ call[p].op \in DomainSaveOps
  /\ LET a == call[p].arg
         domainName == a.addr[2]
     IN  IF ~Has(Conf.Domains, domainName)
         THEN Fail(p, "ret", "request", "domain not present") /\ UNCHANGED Conf
         ELSE LET r == xmodify(call[p].op, Conf.Domains[domainName], a)
                  nc == [Conf EXCEPT !.Domains = Put(Conf.Domains, domainName, r.d)]
              IN  IF r.err # ""
                  THEN Fail(p, "ret", r.err, r.why) /\ UNCHANGED Conf
                  ELSE /\ Conf' = nc
                       /\ call' = [call EXCEPT ![p].pc = "pub", ![p].nc = nc]
  /\ UNCHANGED <<ADL, files, old, lock, now, tlspubkeys, queue, accountDirs, ncalls>>

\* DomainSaveBody that goes on to WriteDynamicLocked when xmodify returned an
\* error.
DomainSaveBodyOnError(p) ==
  /\ call[p].pc = "body" /\ call[p].op \in DomainSaveOps
  /\ LET a == call[p].arg
         domainName == a.addr[2]
     IN  IF ~Has(Conf.Domains, domainName)
         THEN Fail(p, "ret", "request", "domain not present")
         ELSE LET r == xmodify(call[p].op, Conf.Domains[domainName], a)
              IN  IF r.err = "panic"
                  THEN Fail(p, "ret", r.err, r.why)
                  ELSE call' = [call EXCEPT
                         ![p].pc = "pub",
                         ![p].nc = [Conf EXCEPT !.Domains = Put(Conf.Domains, domainName, r.d)]]
  /\ UNCHANGED <<Conf, ADL, files, old, lock, now, tlspubkeys, queue, accountDirs, ncalls>>

\* DomainSave from the domain lookup to the composed configuration: xmodify
\* works on a copy of the domain config, and the changed domain goes into a
\* new Domains map.
DomainSaveBody(p) ==
  /\ call[p].pc = "body" /\ call[p].op \in DomainSaveOps
  /\ LET a == call[p].arg
         domainName == a.addr[2]
     IN  IF ~Has(Conf.Domains, domainName)
         THEN Fail(p, "ret", "request", "domain not present")
         ELSE LET r == xmodify(call[p].op, Conf.Domains[domainName], a)
              IN  IF r.err # ""
                  THEN Fail(p, "ret", r.err, r.why)
                  ELSE call' = [call EXCEPT
                         ![p].pc = "pub",
                         ![p].nc = [Conf EXCEPT !.Domains = Put(Conf.Domains, domainName, r.d)]]
  /\ UNCHANGED <<Conf, ADL, files, old, lock, now, tlspubkeys, queue, accountDirs, ncalls>>

DomainSave(p) ==
  \/ DomainSaveBegin(p)
  \/ DomainSaveBody(p)

\* ------------------------------------------------------------------ AccountRemove

AccountRemoveCall(p, account) ==
  /\ Start(p, "AccountRemove", [account |-> account], "drain", "", "")
  /\ UNCHANGED <<Conf, ADL, files, old, lock, now, tlspubkeys, queue, accountDirs>>

DrainFaults == {"none", "open", "fail", "cancel", "list", "remove"}

\* AccountRemoveDrain that goes on to the lock whatever fails.
AccountRemoveDrainOn(p) ==
  /\ call[p].pc = "drain" /\ call[p].op = "AccountRemove"
  /\ \E fault \in DrainFaults :
       /\ queue' = IF fault = "open" THEN queue
                   ELSE {m \in queue : m.Account # call[p].arg.account}
       /\ call' = [call EXCEPT ![p].pc = "lock"]
  /\ UNCHANGED <<Conf, ADL, files, old, lock, now, tlspubkeys, accountDirs, ncalls>>

\* AccountRemove before it takes the lock: the account is opened, its queued
\* messages are failed, its webhooks cancelled and its suppressions removed;
\* fault is the call that fails.
AccountRemoveDrain(p) ==
  /\ call[p].pc = "drain" /\ call[p].op = "AccountRemove"
  /\ \E fault \in DrainFaults :
       /\ queue' = IF fault = "open" THEN queue
                   ELSE {m \in queue : m.Account # call[p].arg.account}
       /\ IF fault = "open" THEN Fail(p, "done", "request", "open account")
          ELSE IF fault = "fail" THEN Fail(p, "done", "internal", "failing queued messages")
          ELSE IF fault = "cancel" THEN Fail(p, "done", "internal", "canceling queued webhooks")
          ELSE IF fault = "list" THEN Fail(p, "done", "internal", "listing suppressed addresses")
          ELSE IF fault = "remove" THEN Fail(p, "done", "internal", "removing suppression")
          ELSE call' = [call EXCEPT ![p].pc = "lock"]
  /\ UNCHANGED <<Conf, ADL, files, old, lock, now, tlspubkeys, accountDirs, ncalls>>

AccountRemoveBegin(p) ==
  /\ call[p].pc = "lock" /\ call[p].op = "AccountRemove"
  /\ DynamicLock(p)
  /\ ReadConfig(p, "body")
  /\ UNCHANGED <<Conf, ADL, files, old, now, tlspubkeys, queue, accountDirs, ncalls>>

AccountRemoveBody(p) ==
  /\ call[p].pc = "body" /\ call[p].op = "AccountRemove"
  /\ call' = [call EXCEPT
       ![p].pc = "pub",
       ![p].nc = [call[p].c EXCEPT !.Accounts = Del(call[p].c.Accounts, call[p].arg.account)]]
  /\ UNCHANGED <<Conf, ADL, files, old, lock, now, tlspubkeys, queue, accountDirs, ncalls>>

\* After the configuration is written: the account directory is scheduled for
\* removal; remove says that acc.Remove fails.
AccountRemovePost(p) ==
  /\ call[p].pc = "post" /\ call[p].op = "AccountRemove"
  /\ \E remove \in BOOLEAN :
       IF remove
       THEN Fail(p, "ret", "internal", "scheduling account directory for removal failed")
       ELSE call' = [call EXCEPT ![p].pc = "ret"]
  /\ UNCHANGED <<Conf, ADL, files, old, lock, now, tlspubkeys, queue, accountDirs, ncalls>>

AccountRemove(p) ==
  \/ AccountRemoveDrain(p)
  \/ AccountRemoveBegin(p)
  \/ AccountRemoveBody(p)
  \/ AccountRemovePost(p)

\* ------------------------------------------------------------------ AccountSave, ConfigSave

\* AccountSave with an xmodify that sets the full name of the account, or
\* panics.
AccountSaveCall(p, account, fullName, panics) ==
  /\ Start(p, "AccountSave", [account |-> account, fullName |-> fullName, panics |-> panics],
           "lock", "", "")
  /\ UNCHANGED <<Conf, ADL, files, old, lock, now, tlspubkeys, queue, accountDirs>>

AccountSaveBegin(p) ==
  /\ call[p].pc = "lock" /\ call[p].op = "AccountSave"
  /\ DynamicLock(p)
  /\ ReadConfig(p, "body")
  /\ UNCHANGED <<Conf, ADL, files, old, now, tlspubkeys, queue, accountDirs, ncalls>>

AccountSaveBody(p) ==
  /\ call[p].pc = "body" /\ call[p].op = "AccountSave"
  /\ LET a == call[p].arg
         c == call[p].c
     IN  IF ~Has(c.Accounts, a.account)
         THEN Fail(p, "ret", "request", "account not present")
         ELSE IF a.panics
         THEN Fail(p, "ret", "panic", "xmodify panics")
         ELSE LET acc == [c.Accounts[a.account] EXCEPT !.FullName = a.fullName]
              IN  call' = [call EXCEPT
                     ![p].pc = "pub",
                     ![p].nc = [c EXCEPT !.Accounts = Put(c.Accounts, a.account, acc)]]
  /\ UNCHANGED <<Conf, ADL, files, old, lock, now, tlspubkeys, queue, accountDirs, ncalls>>

AccountSave(p) ==
  \/ AccountSaveBegin(p)
  \/ AccountSaveBody(p)

\* ConfigSave with an xmodify that replaces the routes of the configuration,
\* or panics.
ConfigSaveCall(p, routes, panics) ==
  /\ Start(p, "ConfigSave", [routes |-> routes, panics |-> panics], "lock", "", "")
  /\ UNCHANGED <<Conf, ADL, files, old, lock, now, tlspubkeys, queue, accountDirs>>

ConfigSaveBegin(p) ==
  /\ call[p].pc = "lock" /\ call[p].op = "ConfigSave"
  /\ DynamicLock(p)
  /\ ReadConfig(p, "body")
  /\ UNCHANGED <<Conf, ADL, files, old, now, tlspubkeys, queue, accountDirs, ncalls>>

ConfigSaveBody(p) ==
  /\ call[p].pc = "body" /\ call[p].op = "ConfigSave"
  /\ IF call[p].arg.panics
     THEN Fail(p, "ret", "panic", "xmodify panics")
     ELSE call' = [call EXCEPT ![p].pc = "pub",
                               ![p].nc = [Conf EXCEPT !.Routes = call[p].arg.routes]]
  /\ UNCHANGED <<Conf, ADL, files, old, lock, now, tlspubkeys, queue, accountDirs, ncalls>>

ConfigSave(p) ==
  \/ ConfigSaveBegin(p)
  \/ ConfigSaveBody(p)

\* ------------------------------------------------------------------ quickstart

\* A path of the quickstart command: the directory as the sequence of its
\* elements, and the name in it.
QPath(dir, name) == <<dir, name>>
IsQPath(path) == Len(path) = 2

AdminPasswd == QPath(<<"config">>, "adminpasswd")
MoxConf == QPath(<<"config">>, "mox.conf")
DomainsConf == QPath(<<"config">>, "domains.conf")
MoxService == QPath(<<>>, "mox.service")
DataDir == QPath(<<"..">>, "data")
AccountsDir == QPath(<<"..", "data">>, "accounts")
AccountDir(username) == QPath(<<"..", "data", "accounts">>, username)
IndexDB(username) == QPath(<<"..", "data", "accounts", username>>, "index.db")

Directory == <<"directory">>

\* os.Remove(path): a file is removed, a directory only when nothing is in it.
HasEntries(fs, path) ==
  /\ IsQPath(path)
  /\ \E q \in DOMAIN fs : IsQPath(q) /\ q[1] = Append(path[1], path[2])

osRemove(fs, path) ==
  IF Has(fs, path) /\ ~HasEntries(fs, path) THEN Del(fs, path) ELSE fs

\* The loop of fatalf that runs from the first recorded path to the last.
RECURSIVE fatalfRemoveForward(_, _, _)
fatalfRemoveForward(fs, cleanupPaths, i) ==
  IF i = 0 THEN [fs |-> fs, removed |-> <<>>]
  ELSE LET path == cleanupPaths[Len(cleanupPaths) - i + 1]
           r == fatalfRemoveForward(osRemove(fs, path), cleanupPaths, i - 1)
       IN  [fs |-> r.fs, removed |-> <<path>> \o r.removed]

\* The loop of fatalf: for i := len(cleanupPaths) - 1; i >= 0; i-- it calls
\* os.Remove(cleanupPaths[i]); an error of os.Remove is only logged.
RECURSIVE fatalfRemove(_, _, _)
fatalfRemove(fs, cleanupPaths, i) ==
  IF i = 0 THEN [fs |-> fs, removed |-> <<>>]
  ELSE LET path == cleanupPaths[i]
           r == fatalfRemove(osRemove(fs, path), cleanupPaths, i - 1)
       IN  [fs |-> r.fs, removed |-> <<path>> \o r.removed]

\* fatalf: the recorded paths are removed and the command exits.
fatalf(p, fs, cleanupPaths, why) ==
  LET r == fatalfRemove(fs, cleanupPaths, Len(cleanupPaths))
  IN  /\ files' = r.fs
      /\ call' = [call EXCEPT ![p].pc = "done", ![p].err = "fatal", ![p].why = why,
                              ![p].cleanupPaths = cleanupPaths, ![p].removed = r.removed]

\* xwritefile: exclusive create, then the path is recorded, then write and
\* close. The result has the files, the recorded paths, and the message of
\* fatalf when it was called.
xwritefile(fs, cleanupPaths, path, data, fault) ==
  IF Has(fs, path) \/ fault = "create"
  THEN [fs |-> fs, cleanupPaths |-> cleanupPaths, fatal |-> "creating file"]
  ELSE IF fault \in {"write", "close"}
  THEN [fs |-> Put(fs, path, <<"partial">>), cleanupPaths |-> Append(cleanupPaths, path),
        fatal |-> "writing file"]
  ELSE [fs |-> Put(fs, path, data), cleanupPaths |-> Append(cleanupPaths, path), fatal |-> ""]

\* os.MkdirAll for a directory whose parents are there.
Mkdir(fs, path) == IF Has(fs, path) THEN fs ELSE Put(fs, path, Directory)

\* The quickstart command is run, in a process of its own whose mox.Conf is
\* empty; linux says that runtime.GOOS is "linux".
QuickstartCall(p, address, linux) ==
  /\ Start(p, "Quickstart", [address |-> address, linux |-> linux], "hostname", "", "")
  /\ Conf' = NoConf
  /\ ADL' = EmptyMap
  /\ UNCHANGED <<files, old, lock, now, tlspubkeys, queue, accountDirs>>

\* A step of the command that writes nothing: it goes on, or it calls fatalf.
QuickstartCheck(p, pc, next, why) ==
  /\ call[p].pc = pc /\ call[p].op = "Quickstart"
  /\ \E fails \in BOOLEAN :
       IF fails
       THEN fatalf(p, files, call[p].cleanupPaths, why)
       ELSE /\ call' = [call EXCEPT ![p].pc = next]
            /\ UNCHANGED files
  /\ UNCHANGED <<Conf, ADL, old, lock, now, tlspubkeys, queue, accountDirs, ncalls>>

\* A step of the command that writes a file with xwritefile, after an
\* operation that can fail.
QuickstartWrite(p, pc, next, why, path, data) ==
  /\ call[p].pc = pc /\ call[p].op = "Quickstart"
  /\ \E fails \in BOOLEAN, fault \in WriteFaults :
       LET w == xwritefile(files, call[p].cleanupPaths, path, data, fault)
       IN  IF fails
           THEN fatalf(p, files, call[p].cleanupPaths, why)
           ELSE IF w.fatal # ""
           THEN fatalf(p, w.fs, w.cleanupPaths, w.fatal)
           ELSE /\ files' = w.fs
                /\ call' = [call EXCEPT ![p].pc = next, ![p].cleanupPaths = w.cleanupPaths]
  /\ UNCHANGED <<Conf, ADL, old, lock, now, tlspubkeys, queue, accountDirs, ncalls>>

\* Parsing the address and finding the hostname.
QuickstartHostname(p) ==
  /\ call[p].pc = "hostname"
  /\ QuickstartCheck(p, "hostname", "adminpasswd", "hostname")

\* The data directory is made, the admin password is hashed and written.
QuickstartAdminPasswd(p) ==
  /\ call[p].pc = "adminpasswd" /\ call[p].op = "Quickstart"
  /\ \E fails \in BOOLEAN, fault \in WriteFaults :
       LET fs == Mkdir(files, DataDir)
           w == xwritefile(fs, call[p].cleanupPaths, AdminPasswd, <<"adminpwhash">>, fault)
       IN  IF fails
           THEN fatalf(p, fs, call[p].cleanupPaths, "generating hash for generated admin password")
           ELSE IF w.fatal # ""
           THEN fatalf(p, w.fs, w.cleanupPaths, w.fatal)
           ELSE /\ files' = w.fs
                /\ call' = [call EXCEPT ![p].pc = "interfaces", ![p].cleanupPaths = w.cleanupPaths]
  /\ UNCHANGED <<Conf, ADL, old, lock, now, tlspubkeys, queue, accountDirs, ncalls>>

\* The network interfaces and their addresses are listed.
QuickstartInterfaces(p) ==
  /\ call[p].pc = "interfaces"
  /\ QuickstartCheck(p, "interfaces", "domain", "listing network interfaces")

\* MakeAccountConfig and MakeDomainConfig; the paths of the key files are
\* recorded.
QuickstartDomain(p) ==
  /\ call[p].pc = "domain" /\ call[p].op = "Quickstart"
  /\ \E f1, f2 \in Faults :
       LET address == call[p].arg.address
           r == MakeDomainConfig(files, address[2], address[1][1], now, ncalls, f1, f2)
           keyPaths == <<KeyName("ya", address[2], now, "rsa2048"),
                         KeyName("yb", address[2], now, "rsa2048")>>
       IN  IF r.err
           THEN fatalf(p, r.fs, call[p].cleanupPaths, "making domain config")
           ELSE /\ files' = r.fs
                /\ call' = [call EXCEPT
                     ![p].pc = "mox.conf",
                     ![p].d = r.dom,
                     ![p].cleanupPaths = call[p].cleanupPaths \o keyPaths]
  /\ UNCHANGED <<Conf, ADL, old, lock, now, tlspubkeys, queue, accountDirs, ncalls>>

\* The static configuration is generated and written.
QuickstartStatic(p) ==
  /\ call[p].pc = "mox.conf"
  /\ QuickstartWrite(p, "mox.conf", "domains.conf", "generating static config", MoxConf,
                     <<"mox.conf">>)

\* The configuration of domains and accounts is generated and written.
QuickstartDynamic(p) ==
  /\ call[p].pc = "domains.conf"
  /\ QuickstartWrite(p, "domains.conf", "parse", "generating domains config", DomainsConf,
                     <<"domains.conf", call[p].arg.address>>)

\* mox.ParseConfig of what was written, and mox.SetConfig.
QuickstartParse(p) ==
  /\ call[p].pc = "parse" /\ call[p].op = "Quickstart"
  /\ \E fails \in BOOLEAN :
       IF fails
       THEN /\ fatalf(p, files, call[p].cleanupPaths, "checking generated config")
            /\ UNCHANGED <<Conf, ADL>>
       ELSE LET address == call[p].arg.address
                dc == [Domains |-> Put(EmptyMap, address[2], call[p].d),
                       Accounts |-> Put(EmptyMap, address[1][1], MakeAccountConfig(address)),
                       Routes |-> ""]
            IN  /\ Conf' = Prepare(dc)
                /\ ADL' = AccDests(dc)
                /\ call' = [call EXCEPT ![p].pc = "open"]
                /\ UNCHANGED files
  /\ UNCHANGED <<old, lock, now, tlspubkeys, queue, accountDirs, ncalls>>

\* store.OpenEmail makes the account directory and its index.db; when it
\* fails it has made the first n of them. After it the data directory and
\* what is in it for the account are recorded.
QuickstartOpen(p) ==
  /\ call[p].pc = "open" /\ call[p].op = "Quickstart"
  /\ LET username == call[p].arg.address[1][1]
         entries == <<AccountsDir, AccountDir(username), IndexDB(username)>>
         made(n) == LET a == IF n >= 1 THEN Mkdir(files, entries[1]) ELSE files
                        b == IF n >= 2 THEN Mkdir(a, entries[2]) ELSE a
                    IN  IF n >= 3 /\ ~Has(b, entries[3]) THEN Put(b, entries[3], <<"index.db">>) ELSE b
     IN  \E fails \in BOOLEAN, n \in 0..3 :
           IF fails
           THEN /\ fatalf(p, made(n), call[p].cleanupPaths, "open account")
                /\ UNCHANGED accountDirs
           ELSE /\ n = 3
                /\ files' = made(3)
                /\ accountDirs' = accountDirs \cup {username}
                /\ call' = [call EXCEPT
                     ![p].pc = "password",
                     ![p].cleanupPaths = call[p].cleanupPaths \o <<DataDir>> \o entries]
  /\ UNCHANGED <<Conf, ADL, old, lock, now, tlspubkeys, queue, ncalls>>

\* acc.SetPassword and acc.Close.
QuickstartPassword(p) ==
  /\ call[p].pc = "password"
  /\ QuickstartCheck(p, "password", "records", "setting password")

\* mox.DomainRecords.
QuickstartRecords(p) ==
  /\ call[p].pc = "records"
  /\ QuickstartCheck(p, "records", "service", "making required DNS records")

\* On linux mox.service is written, and recorded once more; at the end of the
\* command cleanupPaths = nil.
QuickstartService(p) ==
  /\ call[p].pc = "service" /\ call[p].op = "Quickstart"
  /\ IF call[p].arg.linux
     THEN \E fault \in WriteFaults :
            LET w == xwritefile(files, call[p].cleanupPaths, MoxService, <<"mox.service">>, fault)
            IN  IF w.fatal # ""
                THEN fatalf(p, w.fs, w.cleanupPaths, w.fatal)
                ELSE /\ files' = w.fs
                     /\ call' = [call EXCEPT ![p].pc = "done", ![p].cleanupPaths = <<>>]
     ELSE /\ call' = [call EXCEPT ![p].pc = "done", ![p].cleanupPaths = <<>>]
          /\ UNCHANGED files
  /\ UNCHANGED <<Conf, ADL, old, lock, now, tlspubkeys, queue, accountDirs, ncalls>>

Quickstart(p) ==
  \/ QuickstartHostname(p)
  \/ QuickstartAdminPasswd(p)
  \/ QuickstartInterfaces(p)
  \/ QuickstartDomain(p)
  \/ QuickstartStatic(p)
  \/ QuickstartDynamic(p)
  \/ QuickstartParse(p)
  \/ QuickstartOpen(p)
  \/ QuickstartPassword(p)
  \/ QuickstartRecords(p)
  \/ QuickstartService(p)

\* Before the command is run, one of the files it is going to create is there
\* already.
OtherFiles ==
  {AdminPasswd, MoxConf, DomainsConf, MoxService, KeyName("yb", "d1", 0, "rsa2048")}

FileThere(path) ==
  /\ \A p \in Procs : call[p].pc = "idle"
  /\ ~Has(files, path)
  /\ files' = Put(files, path, <<"other">>)
  /\ UNCHANGED <<Conf, ADL, old, lock, now, tlspubkeys, queue, accountDirs, call, ncalls>>

\* A directory without configuration and without data.
QuickInit ==
  /\ Conf = NoConf
  /\ ADL = EmptyMap
  /\ files = EmptyMap
  /\ old = EmptyMap
  /\ lock = 0
  /\ now = 0
  /\ tlspubkeys = {}
  /\ queue = {}
  /\ accountDirs = {}
  /\ call = [p \in Procs |-> Idle]
  /\ ncalls = 0

\* The quickstart command, run once or again after it has ended.
QuickNext ==
  \/ \E linux \in BOOLEAN : QuickstartCall(1, Address(LpU, "d1"), linux)
  \/ Quickstart(1)
  \/ \E path \in OtherFiles : FileThere(path)

QuickSpec == QuickInit /\ [][QuickNext]_vars

\* ------------------------------------------------------------------ specifications

\* The steps of all handlers, after their call.
Steps(p) ==
  \/ DKIMAdd(p)
  \/ DKIMRemove(p)
  \/ DomainAdd(p)
  \/ DomainRemove(p)
  \/ AccountAdd(p)
  \/ AccountRemove(p)
  \/ AddressAdd(p)
  \/ AddressRemove(p)
  \/ DomainSave(p)
  \/ AccountSave(p)
  \/ ConfigSave(p)
  \/ Write(p)
  \/ Return(p)

\* Concurrent goroutines, each handler called with one choice of arguments.
Calls(p) ==
  \/ DKIMAddCall(p, "d1", "t", "rsa", "sha256", FALSE)
  \/ DKIMRemoveCall(p, "d1", "s")
  \/ DomainAddCall(p, "d3", "a2", Postmaster)
  \/ DomainRemoveCall(p, "d2")
  \/ AccountAddCall(p, "a2", Address(LpV, "d1"))
  \/ AccountRemoveCall(p, "a1")
  \/ AccountSaveCall(p, "a1", "x", FALSE)
  \/ ConfigSaveCall(p, "r", FALSE)
  \/ AddressAddCall(p, Address(LpV, "d1"), "a1")
  \/ AddressRemoveCall(p, Address(LpU, "d1"))
  \/ AliasAddCall(p, Address(LpV, "d1"), Alias(<<Address(LpU, "d1")>>))
  \/ AliasRemoveCall(p, Address(LpList, "d1"))
  \/ AliasAddressesAddCall(p, Address(LpList, "d1"), <<Address(LpV, "d1")>>)
  \/ AliasAddressesRemoveCall(p, Address(LpList, "d1"), <<Address(LpU, "d1")>>)

Next == \E p \in Procs : Calls(p) \/ Steps(p)

Spec == Init /\ [][Next]_vars

\* One goroutine calling the handlers one after the other, with more choices
\* of arguments, while time passes.
SeqCalls(p) ==
  \/ \E a \in {<<"d1", "t", "rsa", "sha256", FALSE>>, <<"d1", "s", "ed25519", "sha256", FALSE>>,
                <<"d1", "t", "rsa", "md5", FALSE>>, <<"d1", "t", "dsa", "sha1", FALSE>>,
                <<"d1", "t", "rsa", "sha256", TRUE>>, <<"d3", "t", "rsa", "sha1", FALSE>>} :
       DKIMAddCall(p, a[1], a[2], a[3], a[4], a[5])
  \/ \E a \in {<<"d1", "s">>, <<"d1", "ya">>, <<"d3", "ya">>} : DKIMRemoveCall(p, a[1], a[2])
  \/ \E a \in {<<"a2", Postmaster>>, <<"a3", Postmaster>>, <<"a1", <<>>>>, <<"a1", Postmaster>>,
                <<"", Postmaster>>, <<"a2", <<>>>>} :
       DomainAddCall(p, "d3", a[1], a[2])
  \/ \E d \in {"d2", "d3"} : DomainRemoveCall(p, d)
  \/ \E a \in {Address(LpV, "d1"), Address(<<>>, "d1"), Address(LpUX, "d1")} :
       AccountAddCall(p, "a2", a)
  \/ \E a \in {Address(LpV, "d1"), Address(<<>>, "d1"), Address(LpUX, "d1")} :
       AddressAddCall(p, a, "a1")
  \/ \E a \in {Address(LpU, "d1"), Address(Postmaster, "d1"), Address(DmarcReports, "d1")} :
       AddressRemoveCall(p, a)
  \/ \E a \in {<<Address(LpU, "d1")>>, <<Address(LpU, "d1"), Address(Postmaster, "d1")>>} :
       AliasAddCall(p, Address(LpV, "d1"), Alias(a))
  \/ AliasRemoveCall(p, Address(LpList, "d1"))
  \/ \E a \in {<<Address(LpV, "d1")>>, <<>>} : AliasAddressesAddCall(p, Address(LpList, "d1"), a)
  \/ \E a \in {<<Address(LpU, "d1")>>, <<Address(LpU, "d1"), Address(Postmaster, "d1")>>, <<>>,
                <<Address(LpU, "d1"), Address(LpV, "d1")>>} :
       AliasAddressesRemoveCall(p, Address(LpList, "d1"), a)

SeqSteps(p) ==
  \/ DKIMAdd(p)
  \/ DKIMRemove(p)
  \/ DomainAdd(p)
  \/ DomainRemove(p)
  \/ AccountAdd(p)
  \/ AddressAdd(p)
  \/ AddressRemove(p)
  \/ DomainSave(p)
  \/ Write(p)
  \/ Return(p)

SeqNext == SeqCalls(1) \/ SeqSteps(1) \/ Tick

SeqSpec == Init /\ [][SeqNext]_vars

\* Two goroutines that add the same address v@d1, to an existing account or
\* with a new account.
RaceCalls(p) ==
  \/ AddressAddCall(p, Address(LpV, "d1"), "a1")
  \/ \E account \in {"a2", "a3"} : AccountAddCall(p, account, Address(LpV, "d1"))

RaceNext == \E p \in Procs : RaceCalls(p) \/ AccountAdd(p) \/ AddressAdd(p) \/ Write(p) \/ Return(p)

RaceSpec == Init /\ [][RaceNext]_vars

\* One goroutine that adds and removes addresses while messages are queued.
LpZ == <<"z">>

QueueCalls(p) ==
  \/ \E a \in {Address(<<>>, "d1"), Address(LpV, "d1")} : AddressAddCall(p, a, "a1")
  \/ \E a \in {Address(<<>>, "d1"), Address(LpU, "d1"), Address(LpV, "d1")} :
       AddressRemoveCall(p, a)
  \/ AccountAddCall(p, "a2", Address(LpZ, "d1"))

QueueNext ==
  \/ QueueCalls(1)
  \/ AccountAdd(1)
  \/ AddressAdd(1)
  \/ AddressRemove(1)
  \/ Write(1)
  \/ Return(1)
  \/ \E account \in {"a1", "a2"}, lp \in {LpU, LpUX, LpV, LpZ} : Submit(account, Address(lp, "d1"))

QueueSpec == Init /\ [][QueueNext]_vars

\* One goroutine that adds and removes account a2 while messages of the
\* account are queued.
AccountCalls(p) ==
  \/ AccountAddCall(p, "a2", Address(LpZ, "d1"))
  \/ AccountRemoveCall(p, "a2")

AccountNext ==
  \/ AccountCalls(1)
  \/ AccountAdd(1)
  \/ AccountRemove(1)
  \/ Write(1)
  \/ Return(1)
  \/ \E account \in {"a1", "a2"}, lp \in {LpU, LpZ} : Submit(account, Address(lp, "d1"))

AccountSpec == Init /\ [][AccountNext]_vars

\* One goroutine that adds addresses and accounts: a new address, the
\* catchall of d1, addresses with the catchall separator of d1, the address of
\* an alias and an address of an unknown domain, for a known and an unknown
\* account.
LpVX == <<"v", "+", "x">>

Addresses ==
  {Address(LpV, "d1"), Address(<<>>, "d1"), Address(LpUX, "d1"), Address(LpVX, "d1"),
   Address(LpList, "d1"), Address(LpV, "d3"), Address(<<>>, "d3")}

AddCalls(p) ==
  \/ \E address \in Addresses, account \in {"a1", "a3"} : AddressAddCall(p, address, account)
  \/ \E address \in Addresses : AccountAddCall(p, "a2", address)

AddNext ==
  \/ AddCalls(1)
  \/ AccountAdd(1)
  \/ AddressAdd(1)
  \/ Write(1)
  \/ Return(1)

AddSpec == Init /\ [][AddNext]_vars

\* Two goroutines that add the selectors t and tb to d1, set the separator of
\* d1 and the full name of a1: DKIMAdd, DomainSave and AccountSave side by
\* side.
ConcCalls(p) ==
  \/ \E selector \in {"t", "tb"} : DKIMAddCall(p, "d1", selector, "rsa", "sha256", FALSE)
  \/ DomainSaveCall(p, "d1", "-", FALSE)
  \/ AccountSaveCall(p, "a1", "x", FALSE)

ConcNext ==
  \E p \in Procs :
    ConcCalls(p) \/ DKIMAdd(p) \/ DomainSave(p) \/ AccountSave(p) \/ Write(p) \/ Return(p)

ConcSpec == Init /\ [][ConcNext]_vars

\* One goroutine that calls DomainSave and AccountSave, for names that exist
\* and names that do not, with an xmodify that works or panics, and the alias
\* handlers whose xmodify returns an error for an alias that is there already
\* or is not there.
SaveCalls(p) ==
  \/ \E domainName \in {"d1", "d2", "d3"}, sep \in {"-", "+"}, panics \in BOOLEAN :
       DomainSaveCall(p, domainName, sep, panics)
  \/ \E account \in {"a1", "a2"}, fullName \in {"x", "y"}, panics \in BOOLEAN :
       AccountSaveCall(p, account, fullName, panics)
  \/ \E lp \in {LpV, LpList} : AliasAddCall(p, Address(lp, "d1"), Alias(<<Address(LpU, "d1")>>))
  \/ \E dom \in {"d1", "d3"} : AliasRemoveCall(p, Address(LpList, dom))
  \/ AccountAddCall(p, "a2", Address(LpV, "d1"))

SaveNext ==
  \/ SaveCalls(1)
  \/ DomainSave(1)
  \/ AccountSave(1)
  \/ AccountAdd(1)
  \/ Write(1)
  \/ Return(1)

SaveSpec == Init /\ [][SaveNext]_vars

\* The account directories outside of the handlers: the directory of an
\* account of the configuration is made when the account is first opened, and
\* the directory of an account that was removed is deleted once nothing uses
\* it any more.
DirectoryMade(account) ==
  /\ Has(Conf.Accounts, account) /\ account \notin accountDirs
  /\ accountDirs' = accountDirs \cup {account}
  /\ UNCHANGED <<Conf, ADL, files, old, lock, now, tlspubkeys, queue, call, ncalls>>

DirectoryDeleted(account) ==
  /\ ~Has(Conf.Accounts, account) /\ account \in accountDirs
  /\ accountDirs' = accountDirs \ {account}
  /\ UNCHANGED <<Conf, ADL, files, old, lock, now, tlspubkeys, queue, call, ncalls>>

\* One goroutine that removes the accounts a1 and a2 and adds them again,
\* while account directories are made and deleted.
ReAddCalls(p) ==
  \/ \E account \in {"a1", "a2"}, lp \in {LpV, LpZ} : AccountAddCall(p, account, Address(lp, "d1"))
  \/ \E account \in {"a1", "a2"} : AccountRemoveCall(p, account)

ReAddNext ==
  \/ ReAddCalls(1)
  \/ AccountAdd(1)
  \/ AccountRemove(1)
  \/ Write(1)
  \/ Return(1)
  \/ \E account \in {"a1", "a2"} : DirectoryMade(account)
  \/ \E account \in {"a1", "a2"} : DirectoryDeleted(account)

ReAddSpec == Init /\ [][ReAddNext]_vars

\* One goroutine that updates the flags of the alias list@d1, of an alias
\* that is not there and of an alias of a domain that is not there, with any
\* flags and with member addresses other than those of the alias; and it
\* adds the alias v@d1 and removes list@d1.
UpdateCalls(p) ==
  \/ \E addr \in {Address(LpList, "d1"), Address(LpV, "d1"), Address(LpList, "d3")},
         addresses \in {<<>>, <<Address(Postmaster, "d1")>>},
         postPublic \in BOOLEAN, listMembers \in BOOLEAN, allowMsgFrom \in BOOLEAN :
       AliasUpdateCall(p, addr, AliasWith(addresses, postPublic, listMembers, allowMsgFrom))
  \/ AliasAddCall(p, Address(LpV, "d1"), Alias(<<Address(LpU, "d1")>>))
  \/ AliasRemoveCall(p, Address(LpList, "d1"))

UpdateNext ==
  \/ UpdateCalls(1)
  \/ DomainSave(1)
  \/ Write(1)
  \/ Return(1)

UpdateSpec == Init /\ [][UpdateNext]_vars

\* One goroutine that gives account a1 the addresses u@d2 and v@d1 and removes
\* addresses of a1, while TLS public keys with login addresses of a1 are
\* stored.
CredCalls(p) ==
  \/ \E address \in {Address(LpU, "d2"), Address(LpV, "d1")} : AddressAddCall(p, address, "a1")
  \/ \E address \in {Address(LpU, "d1"), Address(LpU, "d2"), Address(LpV, "d1")} :
       AddressRemoveCall(p, address)

CredNext ==
  \/ CredCalls(1)
  \/ AddressAdd(1)
  \/ AddressRemove(1)
  \/ Write(1)
  \/ Return(1)
  \/ \E loginAddress \in {Address(LpU, "d1"), Address(LpUX, "d1"), Address(LpU, "d2"),
                           Address(LpV, "d1")} :
       TLSPublicKeyAdd("a1", loginAddress)

CredSpec == Init /\ [][CredNext]_vars

\* One goroutine that adds and removes the selectors ya, s and t of d1 while
\* time passes or not; the key file of ya is the one that d2 uses too, so it
\* stays when ya is removed from d1.
KeyFileCalls(p) ==
  \/ \E a \in {<<"ya", "rsa">>, <<"s", "ed25519">>, <<"t", "rsa">>} :
       DKIMAddCall(p, "d1", a[1], a[2], "sha256", FALSE)
  \/ \E selector \in {"ya", "s"} : DKIMRemoveCall(p, "d1", selector)

KeyFileNext ==
  \/ KeyFileCalls(1)
  \/ DKIMAdd(1)
  \/ DKIMRemove(1)
  \/ Write(1)
  \/ Return(1)
  \/ Tick

KeyFileSpec == Init /\ [][KeyFileNext]_vars

\* One goroutine that changes aliases, addresses and accounts of d1: the
\* alias v@d1 with one member or none, the members of list@d1, the addresses
\* v@d1, u@d1 and postmaster@d1.
AliasCalls(p) ==
  \/ \E a \in {<<Address(LpU, "d1")>>, <<>>} :
       AliasAddCall(p, Address(LpV, "d1"), Alias(a))
  \/ AliasRemoveCall(p, Address(LpList, "d1"))
  \/ \E a \in {<<Address(LpV, "d1")>>, <<Address(LpU, "d1")>>} :
       AliasAddressesAddCall(p, Address(LpList, "d1"), a)
  \/ \E a \in {<<Address(LpU, "d1")>>, <<Address(LpU, "d1"), Address(Postmaster, "d1")>>} :
       AliasAddressesRemoveCall(p, Address(LpList, "d1"), a)
  \/ AddressAddCall(p, Address(LpV, "d1"), "a1")
  \/ \E a \in {Address(LpU, "d1"), Address(Postmaster, "d1")} : AddressRemoveCall(p, a)
  \/ AccountAddCall(p, "a2", Address(LpV, "d1"))

AliasNext ==
  \/ AliasCalls(1)
  \/ DomainSave(1)
  \/ AddressAdd(1)
  \/ AddressRemove(1)
  \/ AccountAdd(1)
  \/ Write(1)
  \/ Return(1)

AliasSpec == Init /\ [][AliasNext]_vars

\* One goroutine that adds an address in d2 and removes domains while TLS
\* public keys are stored.
KeyCalls(p) ==
  \/ AddressAddCall(p, Address(LpV, "d2"), "a1")
  \/ \E domain \in {"d1", "d2", "d3"} : DomainRemoveCall(p, domain)

KeyNext ==
  \/ KeyCalls(1)
  \/ AddressAdd(1)
  \/ DomainRemove(1)
  \/ Write(1)
  \/ Return(1)
  \/ \E loginAddress \in {Address(LpU, "d1"), Address(LpV, "d2")} : TLSPublicKeyAdd("a1", loginAddress)

KeySpec == Init /\ [][KeyNext]_vars

\* Concurrent goroutines calling DomainSave, AccountSave and ConfigSave with
\* an xmodify that panics or not, under fair scheduling: a goroutine that can
\* take a step takes one, and a goroutine waiting for the lock gets it when
\* the lock is free again and again (sync.Mutex hands the lock to a starving
\* waiter).
FairCalls(p) ==
  \/ \E panics \in BOOLEAN : DomainSaveCall(p, "d1", "-", panics)
  \/ DomainSaveCall(p, "d3", "-", FALSE)
  \/ \E panics \in BOOLEAN : AccountSaveCall(p, "a1", "x", panics)
  \/ AccountSaveCall(p, "a2", "x", FALSE)
  \/ \E panics \in BOOLEAN : ConfigSaveCall(p, "r", panics)

FairBegin(p) == DomainSaveBegin(p) \/ AccountSaveBegin(p) \/ ConfigSaveBegin(p)

FairSteps(p) ==
  \/ DomainSave(p)
  \/ AccountSave(p)
  \/ ConfigSave(p)
  \/ Write(p)
  \/ Return(p)

FairNext == \E p \in Procs : FairCalls(p) \/ FairSteps(p)

Fairness == \A p \in Procs : WF_vars(FairSteps(p)) /\ SF_vars(FairBegin(p))

FairSpec == Init /\ [][FairNext]_vars /\ Fairness

\* ------------------------------------------------------------------ properties

\* The positions of a handler between taking the lock and releasing it: it
\* has read its base configuration, validates, writes, or is about to return.
InTransaction(p) == call[p].pc \in {"body", "accounts", "pub", "post", "ret"}

\* C1: mutual exclusion. A handler that has read the base configuration and
\* validates, writes the configuration or finishes its work holds the
\* dynamic-config lock, and at most one handler is at such a position.
C1_MutualExclusion ==
  /\ \A p \in Procs : InTransaction(p) => lock = p
  /\ \A p, q \in Procs : InTransaction(p) /\ InTransaction(q) => p = q

\* One handler is in its transaction while another has been called and waits
\* for the lock.
C1_Witness ==
  \E p, q \in Procs : p # q /\ call[p].pc = "pub" /\ lock = p /\ call[q].pc = "lock"

\* C2: reader isolation. While a handler holds the lock, what a reader sees is
\* the configuration the handler started from, or, once the handler has
\* written, the configuration it composed; nothing in between.
C2_ReaderIsolation ==
  \A p \in Procs :
    InTransaction(p) =>
      \/ Conf = call[p].c
      \/ call[p].pc \in {"post", "ret"} /\ Conf = Prepare(call[p].nc)

\* C3: a failed write leaves no trace. When a handler has returned the error
\* of WriteDynamicLocked, the published configuration is the one from before
\* the call.
C3_PublishFailureNoTrace ==
  \A p \in Procs :
    call[p].pc = "done" /\ call[p].why = "writing domains.conf" => Conf = call[p].pre.Conf

\* C4: key-file atomicity. When DomainAdd (with its MakeDomainConfig) or
\* DKIMAdd has returned an error, no key file exists that did not exist
\* before the call.
C4_KeyFileAtomicity ==
  \A p \in Procs :
    call[p].pc = "done" /\ call[p].op \in {"DomainAdd", "DKIMAdd"} /\ call[p].err # ""
      => DOMAIN files \subseteq DOMAIN call[p].pre.files

\* A call that created key files has returned an error.
C4_Witness ==
  \E p \in Procs :
    /\ call[p].pc = "done" /\ call[p].op \in {"DomainAdd", "DKIMAdd"}
    /\ call[p].err # "" /\ call[p].made # {}
    /\ call[p].made \cap DOMAIN files = {}

\* C5: uniqueness. In the published configuration no two distinct accounts
\* have destinations that canonicalize to the same address.
C5_Uniqueness ==
  \A x, y \in DestPairs(Conf) : DestKey(Conf, x[2]) = DestKey(Conf, y[2]) => x[1] = y[1]

\* The address two concurrent calls add.
RaceAddress == Address(LpV, "d1")

\* p has returned from a call that adds RaceAddress.
AddedRaceAddress(p) ==
  /\ call[p].pc = "done"
  /\ call[p].op \in {"AddressAdd", "AccountAdd"}
  /\ call[p].arg.address = RaceAddress

\* C6 as stated: of two calls that add the same address at most one succeeds
\* and the other returns a request error.
C6_NoStaleCheckRace_Stated ==
  \A p, q \in Procs :
    p # q /\ AddedRaceAddress(p) /\ AddedRaceAddress(q) /\ call[p].err = ""
      => call[q].err = "request"

\* C6: no stale-check race. Of two calls that add the same address at most
\* one succeeds; the other returns an error, a request error unless its own
\* WriteDynamicLocked failed.
C6_NoStaleCheckRace ==
  \A p, q \in Procs :
    p # q /\ AddedRaceAddress(p) /\ AddedRaceAddress(q) /\ call[p].err = ""
      => \/ call[q].err = "request"
         \/ call[q].err = "internal" /\ call[q].why = "writing domains.conf"

\* Both calls have returned: one added the address, the other got the
\* request error of the availability check.
C6_Witness ==
  \E p, q \in Procs :
    /\ p # q /\ AddedRaceAddress(p) /\ AddedRaceAddress(q)
    /\ call[p].err = "" /\ call[q].err = "request"
    /\ call[q].why \in {"canonicalized address already configured", "account already present"}

\* The state a call left is the state it found.
Untouched(p) ==
  /\ Conf = call[p].pre.Conf
  /\ files = call[p].pre.files
  /\ old = call[p].pre.old

AddOps == {"DomainAdd", "AccountAdd", "AddressAdd", "AliasAdd", "DKIMAdd"}

AlreadyThere ==
  {"domain already present", "account already present",
   "canonicalized address already configured",
   "catchall address already configured for domain",
   "alias already present", "selector already exists for domain"}

\* C7: idempotent rejection of additions. An addition that repeats the
\* successful call before it returns a request error, of the "already
\* present" kind when it got to look, and leaves configuration and key files
\* as they were.
C7_IdempotentAdditions ==
  \A p \in Procs :
    call[p].pc = "done" /\ call[p].rep /\ call[p].op \in AddOps
      => /\ call[p].err = "request"
         /\ call[p].why \in AlreadyThere \cup {"making dkim key"}
         /\ Untouched(p)

\* A repeated addition was rejected because what it adds is there.
C7_Witness ==
  \E p \in Procs :
    /\ call[p].pc = "done" /\ call[p].rep /\ call[p].op = "DKIMAdd"
    /\ call[p].why = "selector already exists for domain"

RemoveOps == {"DomainRemove", "DKIMRemove", "AliasRemove", "AddressRemove",
              "AliasAddressesRemove"}

NotThere ==
  {"domain does not exist", "selector does not exist for domain", "alias does not exist",
   "address does not exists", "address not found"}

\* C8: idempotent rejection of removals. A removal that repeats the
\* successful call before it returns a request error of the "does not exist"
\* kind and leaves configuration and files as they were.
C8_IdempotentRemovals ==
  \A p \in Procs :
    call[p].pc = "done" /\ call[p].rep /\ call[p].op \in RemoveOps
      => /\ call[p].err = "request"
         /\ call[p].why \in NotThere
         /\ Untouched(p)

\* A repeated removal of members of an alias was rejected.
C8_Witness ==
  \E p \in Procs :
    /\ call[p].pc = "done" /\ call[p].rep /\ call[p].op = "AliasAddressesRemove"
    /\ call[p].err = "request"

\* p has returned from a successful DKIMRemove or DomainRemove.
Retired(p) ==
  call[p].pc = "done" /\ call[p].op \in {"DKIMRemove", "DomainRemove"} /\ call[p].err = ""

\* The selectors the call removed, with their config from before the call.
RemovedSelectors(p) ==
  LET d == call[p].pre.Conf.Domains[call[p].arg.domain]
  IN  IF call[p].op = "DKIMRemove"
      THEN Put(EmptyMap, call[p].arg.selector, d.Selectors[call[p].arg.selector])
      ELSE d.Selectors

\* The key file n is where it was before the call, and nothing of that name
\* came into old/.
Stays(p, n) ==
  /\ Has(files, n) /\ files[n] = call[p].pre.files[n]
  /\ Has(old, n) => Has(call[p].pre.old, n) /\ old[n] = call[p].pre.old[n]

\* The key file n is in old/ under its name, and no longer at its path.
Moved(p, n) ==
  /\ ~Has(files, n)
  /\ Has(old, n) /\ old[n] = call[p].pre.files[n]

\* C9 as stated: after a successful removal the key file of a removed
\* selector stays when the new configuration still refers to its cleaned
\* path, and is moved to old/ otherwise.
C9_KeyRetirement_Stated ==
  \A p \in Procs :
    Retired(p) =>
      \A sn \in DOMAIN RemovedSelectors(p) :
        LET f == RemovedSelectors(p)[sn].PrivateKeyFile
        IN  Has(call[p].pre.files, f.name) =>
              IF Clean(f) \in gatherUsedKeysPaths(Conf) THEN Stays(p, f.name)
              ELSE Moved(p, f.name)

\* C9: key retirement safety. After a successful removal the key file of a
\* removed selector stays when the new configuration still refers to its
\* cleaned path; otherwise it is moved to old/, unless old/ has a file of
\* that name already: then it stays too.
C9_KeyRetirement ==
  \A p \in Procs :
    Retired(p) =>
      \A sn \in DOMAIN RemovedSelectors(p) :
        LET f == RemovedSelectors(p)[sn].PrivateKeyFile
        IN  Has(call[p].pre.files, f.name) =>
              IF Clean(f) \in gatherUsedKeysPaths(Conf) \/ Has(call[p].pre.old, f.name)
              THEN Stays(p, f.name)
              ELSE Moved(p, f.name)

\* A domain was removed of which one key file is still referred to and stayed
\* and another is not and was moved.
C9_Witness ==
  \E p \in Procs :
    /\ Retired(p) /\ call[p].op = "DomainRemove"
    /\ \E sn, sm \in DOMAIN RemovedSelectors(p) :
         LET f == RemovedSelectors(p)[sn].PrivateKeyFile
             g == RemovedSelectors(p)[sm].PrivateKeyFile
         IN  /\ Clean(f) \in gatherUsedKeysPaths(Conf) /\ Has(files, f.name)
             /\ Clean(g) \notin gatherUsedKeysPaths(Conf) /\ Moved(p, g.name)

\* p has returned from an AliasAddressesRemove whose addresses are all the
\* members the alias had.
RemovedAllMembers(p) ==
  /\ call[p].pc = "done" /\ call[p].op = "AliasAddressesRemove"
  /\ Len(call[p].arg.addresses) > 0
  /\ Has(call[p].pre.Conf.Domains, call[p].arg.addr[2])
  /\ Has(call[p].pre.Conf.Domains[call[p].arg.addr[2]].Aliases, call[p].arg.addr[1])
  /\ LET al == call[p].pre.Conf.Domains[call[p].arg.addr[2]].Aliases[call[p].arg.addr[1]]
     IN  DeleteMembers(al.Addresses, call[p].arg.addresses).members = <<>>

Range(seq) == {seq[i] : i \in 1..Len(seq)}

\* p has returned from AliasAddressesRemove on an alias that existed.
RemovedMembers(p) ==
  /\ call[p].pc = "done" /\ call[p].op = "AliasAddressesRemove"
  /\ Len(call[p].arg.addresses) > 0
  /\ Has(call[p].pre.Conf.Domains, call[p].arg.addr[2])
  /\ Has(call[p].pre.Conf.Domains[call[p].arg.addr[2]].Aliases, call[p].arg.addr[1])

\* The members the alias of the call had before the call.
MembersBefore(p) ==
  call[p].pre.Conf.Domains[call[p].arg.addr[2]].Aliases[call[p].arg.addr[1]].Addresses

\* C11: alias member removal result. After a successful AliasAddressesRemove
\* the members of the alias are the previous members without the requested
\* ones, in their order, and nothing else of the configuration has changed;
\* when a requested address is no member, the call returns a request error
\* and changes nothing.
C11_AliasMemberRemoval ==
  \A p \in Procs :
    RemovedMembers(p) =>
      LET dn == call[p].arg.addr[2]
          al == call[p].arg.addr[1]
          requested == Range(call[p].arg.addresses)
          rest == SelectSeq(MembersBefore(p), LAMBDA x : x \notin requested)
          before == call[p].pre.Conf
      IN  /\ call[p].err = "" =>
                /\ requested \subseteq Range(MembersBefore(p))
                /\ Conf.Domains[dn].Aliases[al].Addresses = rest
                /\ [Conf.Domains EXCEPT ![dn].Aliases[al].Addresses = MembersBefore(p)]
                     = before.Domains
          /\ ~(requested \subseteq Range(MembersBefore(p))) =>
                call[p].err = "request" /\ Conf = before

\* One of the two members of list@d1 was removed.
C11_Witness ==
  \E p \in Procs :
    /\ RemovedMembers(p) /\ call[p].err = ""
    /\ Len(MembersBefore(p)) = 2
    /\ Conf.Domains["d1"].Aliases[LpList].Addresses = <<Address(Postmaster, "d1")>>

\* A removal that names a member and an address that is no member was
\* rejected.
C11_WitnessNoMember ==
  \E p \in Procs :
    /\ RemovedMembers(p) /\ call[p].err = "request"
    /\ Range(call[p].arg.addresses) \cap Range(MembersBefore(p)) # {}
    /\ ~(Range(call[p].arg.addresses) \subseteq Range(MembersBefore(p)))

\* The aliases <<localpart, domain>> of conf that list address as a member.
AliasesWith(conf, address) ==
  {x \in UNION {{<<al, dn>> : al \in DOMAIN conf.Domains[dn].Aliases} : dn \in DOMAIN conf.Domains} :
     address \in Range(conf.Domains[x[2]].Aliases[x[1]].Addresses)}

\* C12: alias cleanup on address removal. After a successful AddressRemove no
\* alias of the published configuration lists the address as a member; and
\* when the address was the only member of an alias, the call returns an
\* error and the configuration is unchanged.
C12_AliasCleanup ==
  \A p \in Procs :
    call[p].pc = "done" /\ call[p].op = "AddressRemove" =>
      LET address == call[p].arg.address
          before == call[p].pre.Conf
      IN  /\ call[p].err = "" => AliasesWith(Conf, address) = {}
          /\ (\E x \in AliasesWith(before, address) :
                Range(before.Domains[x[2]].Aliases[x[1]].Addresses) = {address})
               => call[p].err # "" /\ Conf = before

\* p has returned from DomainAdd.
DomainAdded(p) == call[p].pc = "done" /\ call[p].op = "DomainAdd"

AddressRemoved(p) ==
  /\ call[p].pc = "done" /\ call[p].op = "AddressRemove"
  /\ Has(AccDests(call[p].pre.Conf), call[p].arg.address)
  /\ Has(call[p].pre.Conf.Accounts, AccDests(call[p].pre.Conf)[call[p].arg.address].Account)

\* The account the removed address belonged to.
Owner(p) == AccDests(call[p].pre.Conf)[call[p].arg.address].Account

\* The queued message m of the owner needed the address that p removes: p
\* removes a catchall and the sender of m is not a configured address of the
\* owner, or p removes the canonical sender of m and the catchall of the
\* sender's domain is not the owner's.
Orphans(p, m) ==
  LET before == call[p].pre.Conf
      adl == AccDests(before)
      sa == DestKey(before, m.Sender)
      catchall == Address(<<>>, m.Sender[2])
  IN  /\ m.Account = Owner(p)
      /\ IF IsCatchall(call[p].arg.address)
         THEN ~(Has(adl, sa) /\ adl[sa].Account = Owner(p))
         ELSE /\ sa = call[p].arg.address
              /\ ~(Has(adl, catchall) /\ adl[catchall].Account = Owner(p))

\* C14: address removal guarded by the queue. After a successful
\* AddressRemove the sender of every queued message of the owning account
\* that belonged to that account still belongs to it; and when a queued message of the owner
\* needed the removed address, the call returns a request error (if the queue
\* could be listed) and the configuration is unchanged.
C14_QueueGuard ==
  \A p \in Procs :
    AddressRemoved(p) =>
      /\ call[p].err = "" =>
           \A m \in call[p].pre.queue :
             m.Account = Owner(p) /\ Resolve(call[p].pre.Conf, m.Sender) = Owner(p)
               => Resolve(Conf, m.Sender) = Owner(p)
      /\ (\E m \in call[p].pre.queue : Orphans(p, m)) =>
           /\ call[p].err # ""
           /\ Conf = call[p].pre.Conf
           /\ call[p].why \notin {"listing messages in queue for account",
                                  "listing tls public keys for account"}
                => call[p].err = "request"

\* The removal of a catchall address was rejected because of a queued message
\* whose sender only the catchall covered.
C14_Witness ==
  \E p \in Procs :
    /\ AddressRemoved(p) /\ IsCatchall(call[p].arg.address)
    /\ \E m \in call[p].pre.queue : Orphans(p, m)
    /\ call[p].err = "request"
    /\ call[p].why = "queued message depends on the catchall address"

\* The errors of AccountRemove from before it takes the lock.
DrainErrors ==
  {"open account", "failing queued messages", "canceling queued webhooks",
   "listing suppressed addresses", "removing suppression"}

\* What a step may do to goroutine p in AccountRemove: from the work on the
\* queue it goes on to wait for the lock only without error and with no
\* message of the account left in the queue, and with an error it returns at
\* once; it takes the lock only after that work, and the configuration
\* changes only while it holds the lock.
AccountRemoveStep(p) ==
  call[p].op = "AccountRemove" /\ call'[p].op = "AccountRemove" =>
    /\ call[p].pc = "drain" /\ call'[p].pc # "drain" =>
         /\ lock' = lock /\ lock # p /\ Conf' = Conf /\ ADL' = ADL
         /\ IF call'[p].err = ""
            THEN /\ call'[p].pc = "lock"
                 /\ \A m \in queue' : m.Account # call[p].arg.account
            ELSE call'[p].pc = "done" /\ call'[p].why \in DrainErrors
    /\ lock # p /\ lock' = p =>
         /\ call[p].pc = "lock" /\ call[p].err = ""
         /\ \A m \in queue : m.Account # call[p].arg.account
    /\ Conf' # Conf => lock = p /\ call[p].pc = "pub"

\* C15: account removal ordering and fail-closed. AccountRemove fails the
\* queued messages, cancels the webhooks and removes the suppressions before
\* it takes the lock and writes; when one of these fails it returns the error
\* without taking the lock or writing, and the configuration stays as it is.
C15_AccountRemoveOrdering == [][\A p \in Procs : AccountRemoveStep(p)]_vars

\* AccountRemove has returned an error of its work on the queue, with
\* messages of the account queued, and the account is still configured.
C15_Witness ==
  \E p \in Procs :
    /\ call[p].pc = "done" /\ call[p].op = "AccountRemove"
    /\ call[p].why \in DrainErrors \ {"open account"}
    /\ \E m \in call[p].pre.queue : m.Account = call[p].arg.account
    /\ Has(Conf.Accounts, call[p].arg.account)
    /\ Conf = call[p].pre.Conf /\ lock = 0

\* C16: no partial application in AccountRemove. When AccountRemove has
\* returned an error, the configuration is the one from before the call.
C16_AccountRemoveNoPartial ==
  \A p \in Procs :
    call[p].pc = "done" /\ call[p].op = "AccountRemove" /\ call[p].err # ""
      => Conf = call[p].pre.Conf

\* Goroutine p holds the lock exactly from taking it to the end of its call,
\* and does not wait for a lock it holds.
HoldsInCall(p) ==
  /\ lock = p <=> call[p].pc \in {"body", "accounts", "pub", "post", "ret"}
  /\ call[p].pc \in {"idle", "lock", "drain", "done"} => lock # p

\* A step takes the lock for p only when p waits for the free lock, and gives
\* it up only when p's call ends, by return or by panic.
LockStep(p) ==
  /\ lock # p /\ lock' = p => lock = 0 /\ call[p].pc = "lock"
  /\ lock = p /\ lock' # p => lock' = 0 /\ call[p].pc = "ret" /\ call'[p].pc = "done"
  /\ lock = p /\ call'[p].pc = "done" => lock' # p

\* C17: lock release on every exit path. A handler that has taken the lock
\* releases it once, when its call ends: on success, on an error return and
\* when xmodify of DomainSave, ConfigSave or AccountSave panics. No handler
\* waits for the lock while it holds it. Under fair scheduling a handler that
\* holds the lock ends its call, and a handler that waits for the lock gets it.
C17_LockRelease ==
  /\ [](\A p \in Procs : HoldsInCall(p))
  /\ [][\A p \in Procs : LockStep(p)]_vars
  /\ \A p \in Procs : (lock = p) ~> (call[p].pc = "done" /\ lock # p)
  /\ \A p \in Procs : (call[p].pc = "lock") ~> (lock = p)

\* A call ended in a panic of xmodify, and another goroutine has the lock
\* after it.
C17_Witness ==
  \E p, q \in Procs :
    /\ p # q
    /\ call[p].pc = "done" /\ call[p].err = "panic"
    /\ lock = q /\ call[q].pc = "pub"

\* The call of p has ended with the failure of a collaborator: listing the
\* TLS public keys, a call on the queue, or making a key of a known
\* algorithm.
CollaboratorFailed(p) ==
  /\ call[p].pc = "done"
  /\ \/ call[p].why \in {"listing tls public keys", "listing tls public keys for account",
                         "listing messages in queue for account"}
     \/ call[p].op = "AccountRemove" /\ call[p].why \in DrainErrors \ {"open account"}
     \/ /\ call[p].op = "DKIMAdd" /\ call[p].why = "making dkim key"
        /\ call[p].arg.algorithm \in {"rsa", "ed25519"}

\* C18: error classification of collaborator failures. When a call of a
\* collaborator fails (listing TLS public keys in DomainRemove or
\* AddressRemove, the calls on the queue, key generation), the handler
\* returns an internal error, one that does not match ErrRequest.
C18_CollaboratorErrorsInternal ==
  \A p \in Procs : CollaboratorFailed(p) => call[p].err = "internal"

\* The rejections of a removal because the entity is still referenced or is
\* the last one remaining.
StillReferenced ==
  {"address is last member of alias", "address not removed",
   "tls public key references this address",
   "domain is still referenced in tls public key",
   "queued message with sender address and no catchall address",
   "queued message depends on the catchall address"}

\* C19: error classification of last-remaining removals. A removal that is
\* rejected because the entity is referenced or is the last one remaining
\* returns a request error; so does AddressRemove of an address that is the
\* last member of an alias.
C19_LastRemainingIsRequestError ==
  \A p \in Procs :
    call[p].pc = "done" /\ call[p].why \in StillReferenced => call[p].err = "request"

\* A TLS public key stored when the call of p took the lock has a login
\* address in the domain.
KeyInDomain(p, domain) ==
  \E tpk \in call[p].pre.tlspubkeys : tpk.LoginAddress[2] = domain

\* C20: domain removal guarded by credentials. DomainRemove(domain) returns
\* a request error, publishes nothing and moves no key file when a stored TLS
\* public key has a login address in the domain; it is not rejected for this
\* reason when no stored login address is in the domain.
C20_DomainRemoveGuarded ==
  \A p \in Procs :
    call[p].pc = "done" /\ call[p].op = "DomainRemove" =>
      IF KeyInDomain(p, call[p].arg.domain)
      THEN /\ call[p].err = "request"
           /\ Conf = call[p].pre.Conf
           /\ files = call[p].pre.files /\ old = call[p].pre.old
      ELSE call[p].why # "domain is still referenced in tls public key"

\* DomainRemove of d2 was rejected for a key with a login address in d2 while
\* d2 is a domain without other references, and the configuration and its key
\* files are as before.
C20_Witness ==
  \E p \in Procs :
    /\ call[p].pc = "done" /\ call[p].op = "DomainRemove" /\ call[p].arg.domain = "d2"
    /\ KeyInDomain(p, "d2")
    /\ call[p].why = "domain is still referenced in tls public key"
    /\ Has(Conf.Domains, "d2") /\ old = EmptyMap

\* DomainRemove of d2 succeeded while a key with a login address in d1 is
\* stored.
C20_WitnessOtherDomain ==
  \E p \in Procs :
    /\ call[p].pc = "done" /\ call[p].op = "DomainRemove" /\ call[p].arg.domain = "d2"
    /\ KeyInDomain(p, "d1") /\ ~KeyInDomain(p, "d2")
    /\ call[p].err = "" /\ ~Has(Conf.Domains, "d2")

\* What checkAddressAvailable and AddressAdd return for an address that
\* cannot be added.
AddressRejections ==
  {"domain does not exist", "canonicalized address already configured",
   "localpart cannot include domain catchall separator", "address in use as alias",
   "catchall address already configured for domain"}

\* The address of the call of p cannot be added to the configuration the call
\* started from: the account of AddressAdd or the domain is unknown, the
\* catchall of the domain or the canonical address is configured, the
\* localpart holds the catchall separator of the domain, or the canonical
\* localpart is an alias of the domain.
NotAddable(p) ==
  LET a == call[p].arg
      before == call[p].pre
  IN  \/ call[p].op = "AddressAdd" /\ ~Has(before.Conf.Accounts, a.account)
      \/ ~Has(before.Conf.Domains, a.address[2])
      \/ /\ Has(before.Conf.Domains, a.address[2])
         /\ IF IsCatchall(a.address) THEN Has(before.ADL, a.address)
            ELSE LET dc == before.Conf.Domains[a.address[2]]
                     lp == CanonicalLocalpart(a.address[1], dc)
                 IN  \/ Has(before.ADL, Address(lp, a.address[2]))
                     \/ dc.Sep # "" /\ Contains(a.address[1], dc.Sep)
                     \/ Has(dc.Aliases, lp)

\* The destinations of account in conf, none when conf has no such account.
DestinationsOf(conf, account) ==
  IF Has(conf.Accounts, account) THEN conf.Accounts[account].Destinations ELSE {}

\* The call of p added exactly its address to its account.
GainedAddress(p) ==
  LET a == call[p].arg
      before == call[p].pre.Conf
  IN  /\ Has(Conf.Accounts, a.account)
      /\ a.address \notin DestinationsOf(before, a.account)
      /\ Conf.Accounts[a.account].Destinations
           = DestinationsOf(before, a.account) \cup {a.address}
      /\ Conf.Domains = before.Domains
      /\ \A n \in DOMAIN Conf.Accounts \ {a.account} :
           Has(before.Accounts, n) /\ Conf.Accounts[n] = before.Accounts[n]
      /\ DOMAIN before.Accounts \subseteq DOMAIN Conf.Accounts

\* C21: address addition rejections. AddressAdd, and AccountAdd for its
\* first address, returns a request error and leaves the configuration as it
\* is when the account of AddressAdd or the domain of the address does not
\* exist, the canonical address is configured, the localpart holds a catchall
\* separator of the domain, the canonical localpart is an alias of the domain,
\* or the catchall of the domain is configured. Otherwise the address is not
\* rejected: AddressAdd returns no request error, and the call that succeeds
\* adds exactly that destination to the account.
C21_AddressAddRejections ==
  \A p \in Procs :
    /\ call[p].pc = "done" /\ call[p].op \in {"AddressAdd", "AccountAdd"}
    /\ call[p].why # "parsing email address"
    => IF NotAddable(p)
       THEN call[p].err = "request" /\ Conf = call[p].pre.Conf
       ELSE /\ call[p].why \notin AddressRejections \cup {"account does not exist"}
            /\ call[p].op = "AddressAdd" => call[p].err # "request"
            /\ call[p].err = "" => GainedAddress(p)

\* AddressAdd of the address of an alias was rejected, after an AddressAdd
\* that added an address.
C21_Witness ==
  \E p \in Procs :
    /\ call[p].pc = "done" /\ call[p].op = "AddressAdd"
    /\ call[p].why = "address in use as alias" /\ call[p].err = "request"
    /\ Has(Conf.Accounts, "a1") /\ Address(LpV, "d1") \in Conf.Accounts["a1"].Destinations
    /\ Conf = call[p].pre.Conf

\* DKIMAdd is called with a hash other than sha256 and sha1, an algorithm
\* other than rsa and ed25519, a domain that conf does not have, or a
\* selector that the domain has in conf.
DKIMAddRejected(a, conf) ==
  \/ a.hash \notin {"sha256", "sha1"}
  \/ a.algorithm \notin {"rsa", "ed25519"}
  \/ ~Has(conf.Domains, a.domain)
  \/ Has(conf.Domains, a.domain) /\ Has(conf.Domains[a.domain].Selectors, a.selector)

\* Such a call has returned: with a request error, having made no key file,
\* and key files and configuration are those from before.
DKIMAddRejectedDone(p) ==
  /\ call[p].pc = "done" /\ call[p].op = "DKIMAdd"
  /\ DKIMAddRejected(call[p].arg, call[p].pre.Conf)
  => /\ call[p].err = "request"
     /\ call[p].made = {}
     /\ files = call[p].pre.files /\ old = call[p].pre.old
     /\ Conf = call[p].pre.Conf

\* No step of such a call changes the key files or the configuration.
DKIMAddRejectedStep(p) ==
  /\ call[p].op = "DKIMAdd" /\ call[p].pc \notin {"idle", "done"}
  /\ DKIMAddRejected(call[p].arg, Conf)
  => files' = files /\ old' = old /\ Conf' = Conf

\* C22: DKIM selector addition rejections. DKIMAdd returns a request error
\* when the hash is neither sha256 nor sha1, the algorithm is neither rsa nor
\* ed25519, the domain is unknown or the domain has a selector of that name;
\* the call then writes no key file at any point and leaves the configuration
\* as it is.
C22_DKIMAddRejections ==
  /\ [](\A p \in Procs : DKIMAddRejectedDone(p))
  /\ [][\A p \in Procs : DKIMAddRejectedStep(p)]_vars

\* DKIMAdd of the existing selector s of d1 has returned its request error.
C22_Witness ==
  \E p \in Procs :
    /\ call[p].pc = "done" /\ call[p].op = "DKIMAdd"
    /\ call[p].arg.selector = "s" /\ call[p].arg.hash = "sha256"
    /\ call[p].why = "selector already exists for domain"
    /\ Has(Conf.Domains["d1"].Selectors, "s")
    /\ files = call[p].pre.files

\* Every name in the signing list of a domain of conf is a selector of the
\* domain.
SignInSelectors(conf) ==
  \A dn \in DOMAIN conf.Domains :
    \A i \in 1..Len(conf.Domains[dn].Sign) :
      Has(conf.Domains[dn].Selectors, conf.Domains[dn].Sign[i])

\* DKIMRemove has returned: for an unknown domain or selector with a request
\* error and nothing changed, and after a success the selector is gone from
\* the domain and from its signing list, the rest as it was.
DKIMRemoveDone(p) ==
  call[p].pc = "done" /\ call[p].op = "DKIMRemove" =>
    LET a == call[p].arg
        before == call[p].pre.Conf
    IN  IF ~Has(before.Domains, a.domain) \/ ~Has(before.Domains[a.domain].Selectors, a.selector)
        THEN call[p].err = "request" /\ Conf = before
        ELSE call[p].err = "" =>
               LET d == before.Domains[a.domain]
                   n == Conf.Domains[a.domain]
               IN  /\ DOMAIN n.Selectors = DOMAIN d.Selectors \ {a.selector}
                   /\ \A name \in DOMAIN n.Selectors : n.Selectors[name] = d.Selectors[name]
                   /\ n.Sign = SelectSeq(d.Sign, LAMBDA name : name # a.selector)
                   /\ Conf = [before EXCEPT !.Domains[a.domain].Selectors = n.Selectors,
                                            !.Domains[a.domain].Sign = n.Sign]

Referenced(conf) ==
  UNION {{conf.Domains[dn].Selectors[sn].PrivateKeyFile.name
          : sn \in DOMAIN conf.Domains[dn].Selectors} : dn \in DOMAIN conf.Domains}

\* What a step may do to the key files: a configuration is published only
\* with all its key files in place; a file that disappears without going to
\* old/ was made by a call that did not publish it and is not referenced; a
\* file goes to old/ only when the published configuration no longer
\* references it.
KeyFileStep ==
  /\ Conf' # Conf => Referenced(Conf') \subseteq DOMAIN files
  /\ \A name \in DOMAIN files \ DOMAIN files' :
       \/ /\ name \in DOMAIN old' \ DOMAIN old
          /\ name \notin Referenced(Conf)
          /\ old'[name] = files[name]
       \/ /\ name \notin Referenced(Conf) \cup Referenced(Conf')
          /\ \E p \in Procs : name \in call[p].made /\ call[p].err # ""

\* C24: referenced key files exist. In every reachable state the key file of
\* each selector of the published configuration is present under dkim/. The
\* file is written before the configuration that references it is published,
\* the rollback deletes a file only when the configuration referencing it was
\* not published, and DKIMRemove and DomainRemove move a file to old/ only
\* after a configuration that no longer references it has been published.
C24_ReferencedKeyFilesExist ==
  /\ [](Referenced(Conf) \subseteq DOMAIN files)
  /\ [][KeyFileStep]_vars

\* DKIMAdd has published a selector with the key file it made, after an
\* earlier call.
C24_Witness ==
  \E p \in Procs :
    /\ call[p].pc = "done" /\ call[p].op = "DKIMAdd" /\ call[p].err = ""
    /\ call[p].rep = FALSE /\ call[p].made # {}
    /\ call[p].made \subseteq Referenced(Conf) \cap DOMAIN files
    /\ call[p].made \cap DOMAIN call[p].pre.files = {}
    /\ ncalls >= 2

\* What a step may do to retired and to published key files: a file under
\* old/ stays as it is; the step of DKIMRemove and DomainRemove that moves
\* the key files away leaves a file alone whose name old/ already has, and
\* sets no error; a file that disappears without going to old/ was made by
\* the call that removes it, was not there when the call took the lock, and
\* no configuration with other domains was published since.
RetiredKeyStep ==
  /\ \A name \in DOMAIN old : Has(old', name) /\ old'[name] = old[name]
  /\ \A p \in Procs :
       call[p].pc = "post" /\ call[p].op \in {"DKIMRemove", "DomainRemove"}
       /\ call'[p].pc # "post" =>
         /\ call'[p].err = ""
         /\ \A name \in DOMAIN files \cap DOMAIN old :
              Has(files', name) /\ files'[name] = files[name]
  /\ \A name \in DOMAIN files \ (DOMAIN files' \cup DOMAIN old') :
       \E p \in Procs :
         /\ name \in call[p].made /\ ~Has(call[p].pre.files, name)
         /\ Conf.Domains = call[p].pre.Conf.Domains /\ Conf'.Domains = Conf.Domains

\* C25: retired keys are never overwritten or deleted. Retiring a key file
\* whose name old/ already has moves nothing, leaves the retired file and the
\* active file as they are, and DKIMRemove and DomainRemove return no error
\* for it. No handler deletes a key file that a published configuration
\* referenced or that is under old/, also not when a selector is added,
\* removed, added and removed again with the same file name.
C25_RetiredKeysKept == [][RetiredKeyStep]_vars

\* DKIMRemove has succeeded for a selector whose key file has the name of an
\* earlier key in old/: both files are where they were, with their own keys.
C25_Witness ==
  \E p \in Procs :
    /\ call[p].pc = "done" /\ call[p].op = "DKIMRemove" /\ call[p].err = ""
    /\ LET a == call[p].arg
           name == call[p].pre.Conf.Domains[a.domain].Selectors[a.selector].PrivateKeyFile.name
       IN  /\ ~Has(Conf.Domains[a.domain].Selectors, a.selector)
           /\ Has(call[p].pre.old, name) /\ Has(call[p].pre.files, name)
           /\ Has(old, name) /\ old[name] = call[p].pre.old[name]
           /\ Has(files, name) /\ files[name] = call[p].pre.files[name]
           /\ old[name] # files[name]

\* C26: referential invariant for domains. After any sequence of handler
\* calls every destination of an account, plain or catchall, and every alias
\* of the published configuration belongs to a domain of the published
\* configuration, also after a DomainRemove of a domain that accounts have
\* destinations in.
C26_DomainsOfAddressesExist ==
  /\ \A pair \in DestPairs(Conf) : Has(Conf.Domains, pair[2][2])
  /\ \A n \in DOMAIN Conf.Accounts :
       \A aa \in Conf.Accounts[n].Aliases :
         /\ Has(Conf.Domains, aa.Alias[2])
         /\ Has(Conf.Domains[aa.Alias[2]].Aliases, aa.Alias[1])

WriteFileStep(p) ==
  /\ call[p].op = "DKIMAdd" /\ call[p].pc = "body" /\ call'[p].pc # "body"
  /\ call'[p].why \notin {"domain does not exist", "selector already exists for domain"}
  => LET a == call[p].arg
         path == KeyName(a.selector, a.domain, now, IF a.algorithm = "rsa" THEN "rsa2048" ELSE "ed25519")
         data == IF a.algorithm = "rsa" THEN MakeDKIMRSAKey(a.selector, a.domain, ncalls)
                 ELSE MakeDKIMEd25519Key(a.selector, a.domain, ncalls)
     IN  IF Has(files, path)
         THEN call'[p].err = "internal" /\ files' = files /\ call'[p].paths = {}
         ELSE IF call'[p].err # ""
         THEN files' = files /\ call'[p].paths = {}
         ELSE /\ DOMAIN files' = DOMAIN files \cup {path}
              /\ files'[path] = data
              /\ \A other \in DOMAIN files : files'[other] = files[other]

\* C28: exclusive, all-or-nothing key file write. writeFile creates the file
\* only when nothing is at the path; with a file at the path it returns an
\* error and leaves that file and its content alone, and the rollback of the
\* caller does not delete it; when the write or the close fails the file is
\* gone when writeFile returns; on success the file has exactly the given
\* bytes.
C28_WriteFileExclusive ==
  /\ [][\A p \in Procs : WriteFileStep(p)]_vars
  /\ [](\A p \in Procs :
          call[p].pc = "done" /\ call[p].op = "DKIMAdd" /\ call[p].why = "writing key file"
            => files = call[p].pre.files)

\* DKIMAdd has returned the error of writeFile for a path that had a file,
\* and that file is still there with its content.
C28_Witness ==
  \E p \in Procs :
    /\ call[p].pc = "done" /\ call[p].op = "DKIMAdd" /\ call[p].why = "writing key file"
    /\ LET a == call[p].arg
           path == KeyName(a.selector, a.domain, now, IF a.algorithm = "rsa" THEN "rsa2048" ELSE "ed25519")
       IN  /\ Has(call[p].pre.files, path)
           /\ Has(files, path) /\ files[path] = call[p].pre.files[path]
           /\ files[path][4] # ncalls

\* No alias of the published configuration lists an address twice.
NoMemberTwice ==
  \A d \in DOMAIN Conf.Domains : \A lp \in DOMAIN Conf.Domains[d].Aliases :
    NoDuplicates(Conf.Domains[d].Aliases[lp].Addresses)

\* C29: idempotent rejection of alias member addition. An AliasAddressesAdd
\* that repeats the successful call before it returns a request error of the
\* "already exists" kind and leaves the published configuration as it was,
\* and no published alias lists an address twice.
C29_AliasAddressesAddRepeated ==
  /\ NoMemberTwice
  /\ \A p \in Procs :
       call[p].pc = "done" /\ call[p].rep /\ call[p].op = "AliasAddressesAdd"
         => /\ call[p].err = "request"
            /\ Untouched(p)

\* A step that changes the published configuration is the publication of the
\* goroutine that holds the lock, whose base is the configuration published
\* at that moment, and it publishes what that goroutine composed.
SerialStep ==
  Conf' # Conf =>
    \E p \in Procs :
      /\ lock = p /\ call[p].pc = "pub" /\ call[p].err = ""
      /\ call[p].c = Conf
      /\ Conf' = Prepare(call[p].nc)
      /\ call'[p].err = ""

\* A call that has published does not return an error after it.
PublishedSucceeds ==
  \A p \in Procs : call[p].pc = "post" => call'[p].err = ""

\* Both DKIMAdd calls for d1 have returned without error.
BothAdded ==
  /\ \A p \in Procs : call[p].pc = "done" /\ call[p].op = "DKIMAdd" /\ call[p].err = ""
  /\ call[1].arg.selector # call[2].arg.selector

\* C30: serializable updates without lost edits. In every interleaving the
\* published configuration changes only by the publication of the goroutine
\* that holds the lock, built on the configuration published at that moment,
\* and only calls that succeed publish; so the final configuration is that of
\* the successful calls applied in the order they took the lock, and two
\* DKIMAdd calls for different selectors of one domain both end up in its
\* selectors.
C30_Serializable ==
  /\ [][SerialStep /\ PublishedSucceeds]_vars
  /\ [](BothAdded => \A p \in Procs :
          Has(Conf.Domains[call[p].arg.domain].Selectors, call[p].arg.selector))

\* The domain or the account that a call of DomainSave or AccountSave names.
SavedDomain(p) == call[p].arg.addr[2]

SaveDone(p, ops) == call[p].pc = "done" /\ call[p].op \in ops

\* DomainSave that has returned: an unknown domain is a request error and
\* not the panic of xmodify, an error of xmodify is the error returned, both
\* without a change; after success the named domain is what xmodify made of
\* it, every other domain is as before and so is what is configured of the
\* accounts (the aliases listed with an account are derived from the domains).
DomainSaveDone(p) ==
  SaveDone(p, DomainSaveOps) =>
    LET base == call[p].pre.Conf
        name == SavedDomain(p)
    IN  IF ~Has(base.Domains, name)
        THEN call[p].err = "request" /\ call[p].why = "domain not present" /\ Conf = base
        ELSE LET r == xmodify(call[p].op, base.Domains[name], call[p].arg)
             IN  IF r.err # ""
                 THEN call[p].err = r.err /\ call[p].why = r.why /\ Conf = base
                 ELSE IF call[p].err # ""
                 THEN call[p].why = "writing domains.conf" /\ Conf = base
                 ELSE /\ DOMAIN Conf.Domains = DOMAIN base.Domains
                      /\ Conf.Domains[name] = Prepare([base EXCEPT !.Domains = Put(base.Domains, name, r.d)]).Domains[name]
                      /\ \A other \in DOMAIN base.Domains \ {name} :
                           Conf.Domains[other] = base.Domains[other]
                      /\ DOMAIN Conf.Accounts = DOMAIN base.Accounts
                      /\ \A acc \in DOMAIN base.Accounts :
                           /\ Conf.Accounts[acc].Destinations = base.Accounts[acc].Destinations
                           /\ Conf.Accounts[acc].FullName = base.Accounts[acc].FullName
                      /\ Conf.Routes = base.Routes

\* AccountSave that has returned, likewise.
AccountSaveDone(p) ==
  SaveDone(p, {"AccountSave"}) =>
    LET base == call[p].pre.Conf
        name == call[p].arg.account
    IN  IF ~Has(base.Accounts, name)
        THEN call[p].err = "request" /\ call[p].why = "account not present" /\ Conf = base
        ELSE IF call[p].err # ""
        THEN Conf = base
        ELSE /\ DOMAIN Conf.Accounts = DOMAIN base.Accounts
             /\ Conf.Accounts[name].FullName = call[p].arg.fullName
             /\ \A other \in DOMAIN base.Accounts \ {name} :
                  Conf.Accounts[other] = base.Accounts[other]
             /\ Conf.Domains = base.Domains
             /\ Conf.Routes = base.Routes

\* WriteDynamicLocked is reached only with a known name and an xmodify that
\* returned no error, and composing the configuration leaves the published
\* one as it is.
SaveComposeStep(p) ==
  /\ call[p].op \in DomainSaveOps /\ call[p].pc = "body" /\ call'[p].pc = "pub"
       => /\ Has(Conf.Domains, SavedDomain(p))
          /\ xmodify(call[p].op, Conf.Domains[SavedDomain(p)], call[p].arg).err = ""
          /\ Conf' = Conf
  /\ call[p].op = "AccountSave" /\ call[p].pc = "body" /\ call'[p].pc = "pub"
       => Has(Conf.Accounts, call[p].arg.account) /\ Conf' = Conf

\* C31: generic edit entry points. DomainSave (AccountSave) with an unknown
\* domain (account) returns a request error without calling xmodify and
\* without publishing; an error of DomainSave's xmodify is returned,
\* WriteDynamicLocked is not called and the published configuration stays;
\* when xmodify succeeds, the one named record is replaced in a new map and
\* every other domain (account) is as before.
C31_GenericEdit ==
  /\ [](\A p \in Procs : DomainSaveDone(p) /\ AccountSaveDone(p))
  /\ [][\A p \in Procs : SaveComposeStep(p)]_vars

\* DomainSave of an unknown domain with an xmodify that would panic has
\* returned the request error.
C31_WitnessUnknown ==
  \E p \in Procs :
    /\ SaveDone(p, {"DomainSave"}) /\ call[p].arg.panics
    /\ ~Has(call[p].pre.Conf.Domains, SavedDomain(p))
    /\ call[p].err = "request"

\* The step of AccountAdd after the lock: with the account in the
\* configuration or its directory on disk it returns a request error, and it
\* goes on to compose a configuration only without both.
AccountAddStep(p) ==
  call[p].pc = "body" /\ call[p].op = "AccountAdd" /\ call'[p].pc # "body"
    => LET account == call[p].arg.account
       IN  /\ account \in accountDirs \/ Has(Conf.Accounts, account)
               => call'[p].pc = "ret" /\ call'[p].err = "request" /\ Conf' = Conf
           /\ call'[p].pc = "pub"
               => account \notin accountDirs /\ ~Has(Conf.Accounts, account)

DirectoryErrors ==
  {"account directory already/still exists", "stat account directory", "account already present"}

\* C32: account re-creation is blocked while the old directory exists.
\* AccountAdd returns a request error and leaves the configuration unchanged
\* whenever the directory of the account exists or cannot be confirmed
\* absent, as after a successful AccountRemove of the account until the
\* directory is deleted, and also when the account is in the configuration.
C32_AccountAddBlocked ==
  /\ [][\A p \in Procs : AccountAddStep(p)]_vars
  /\ [](\A p \in Procs :
          call[p].pc = "done" /\ call[p].op = "AccountAdd" /\ call[p].why \in DirectoryErrors
            => call[p].err = "request" /\ Conf = call[p].pre.Conf)

\* AccountAdd of an account that is no longer in the configuration has been
\* refused because of the directory that is still there.
C32_Witness ==
  \E p \in Procs :
    /\ call[p].pc = "done" /\ call[p].op = "AccountAdd"
    /\ call[p].why = "account directory already/still exists"
    /\ call[p].arg.account \in DOMAIN InitConf.Accounts
    /\ ~Has(Conf.Accounts, call[p].arg.account)
    /\ call[p].arg.account \in accountDirs

\* C33: frame of AliasUpdate. A successful AliasUpdate changes only the flags
\* PostPublic, ListMembers and AllowMsgFrom of the named alias: its member
\* addresses, every other alias of the domain, every other domain and all
\* accounts are as before; AliasUpdate of an alias that does not exist is a
\* request error without change.
C33_AliasUpdateFrame ==
  \A p \in Procs :
    SaveDone(p, {"AliasUpdate"}) =>
      LET base == call[p].pre.Conf
          dom == call[p].arg.addr[2]
          lp == call[p].arg.addr[1]
          alias == call[p].arg.alias
      IN  IF ~Has(base.Domains, dom)
          THEN call[p].err = "request" /\ Conf = base
          ELSE IF ~Has(base.Domains[dom].Aliases, lp)
          THEN call[p].err = "request" /\ call[p].why = "alias does not exist" /\ Conf = base
          ELSE IF call[p].err # ""
          THEN Conf = base
          ELSE /\ Conf.Domains[dom].Aliases[lp] =
                    AliasWith(base.Domains[dom].Aliases[lp].Addresses,
                              alias.PostPublic, alias.ListMembers, alias.AllowMsgFrom)
               /\ Conf = [base EXCEPT !.Domains[dom].Aliases[lp] = Conf.Domains[dom].Aliases[lp]]

\* AliasUpdate has set a flag of list@d1 and was given other member addresses
\* than the alias has.
C33_Witness ==
  \E p \in Procs :
    /\ SaveDone(p, {"AliasUpdate"}) /\ call[p].err = ""
    /\ call[p].arg.alias.PostPublic
    /\ call[p].arg.alias.Addresses # call[p].pre.Conf.Domains["d1"].Aliases[LpList].Addresses
    /\ Conf.Domains["d1"].Aliases[LpList].PostPublic
    /\ Conf # call[p].pre.Conf

\* AliasUpdate of an alias that is not there has returned its request error.
C33_WitnessMissing ==
  \E p \in Procs :
    SaveDone(p, {"AliasUpdate"}) /\ call[p].why = "alias does not exist"

\* C34: frame of DKIMAdd. A successful DKIMAdd adds one entry to the
\* selectors of the named domain and changes nothing else: the signing list
\* of the domain is as before, the selectors it had keep their values, and
\* every other domain and every account is as before.
C34_DKIMAddFrame ==
  \A p \in Procs :
    SaveDone(p, {"DKIMAdd"}) /\ call[p].err = "" =>
      LET base == call[p].pre.Conf
          dom == call[p].arg.domain
          sel == call[p].arg.selector
      IN  /\ Has(base.Domains, dom) /\ ~Has(base.Domains[dom].Selectors, sel)
          /\ DOMAIN Conf.Domains[dom].Selectors = DOMAIN base.Domains[dom].Selectors \cup {sel}
          /\ Conf.Domains[dom].Selectors[sel].Hash = call[p].arg.hash
          /\ Conf.Domains[dom].Sign = base.Domains[dom].Sign
          /\ Conf = [base EXCEPT !.Domains[dom].Selectors =
                       Put(@, sel, Conf.Domains[dom].Selectors[sel])]

\* DKIMAdd has added a selector to a domain that signs with another one.
C34_Witness ==
  \E p \in Procs :
    /\ SaveDone(p, {"DKIMAdd"}) /\ call[p].err = ""
    /\ Has(Conf.Domains[call[p].arg.domain].Selectors, call[p].arg.selector)
    /\ Len(Conf.Domains[call[p].arg.domain].Sign) > 0
    /\ Conf # call[p].pre.Conf

\* A TLS public key stored when the call of p took the lock has, made
\* canonical in its own domain, the address that p removes as login address.
KeyReferences(p) ==
  \E tpk \in call[p].pre.tlspubkeys :
    DestKey(call[p].pre.Conf, tpk.LoginAddress) = call[p].arg.address

\* The errors of AddressRemove before it looks at the TLS public keys.
BeforeKeys ==
  {"address does not exists", "cannot find account", "address not removed",
   "unknown domain in address", "listing tls public keys for account"}

\* C35: precision of the credential guard in AddressRemove. AddressRemove is
\* rejected because of a stored TLS public key exactly when the login address
\* of that key, made canonical in its own domain, is the address that is
\* removed; a key with the same local part in another domain does not block
\* the removal; a rejected call leaves the configuration unchanged.
C35_CredentialGuardPrecise ==
  \A p \in Procs :
    SaveDone(p, {"AddressRemove"}) /\ call[p].why \notin BeforeKeys =>
      /\ call[p].why = "tls public key references this address" <=> KeyReferences(p)
      /\ call[p].why = "tls public key references this address"
           => call[p].err = "request" /\ Conf = call[p].pre.Conf

\* The data directory and the paths in it.
UnderDataDir(path) ==
  /\ IsQPath(path)
  /\ path = DataDir \/ (Len(path[1]) >= 2 /\ SubSeq(path[1], 1, 2) = <<"..", "data">>)

QuickstartDone(p) == call[p].pc = "done" /\ call[p].op = "Quickstart"

\* C36: quickstart cleanup. When the quickstart command aborts through
\* fatalf, every path it has recorded is removed, the os.Remove calls going
\* from the last recorded path to the first; a file that was there before the
\* command, for which the exclusive create failed, is not removed; when the
\* command completes nothing is removed. (The data directory and what
\* store.OpenEmail finds or makes in it are not made with an exclusive create:
\* they are recorded, and removed, also when they were there before.)
C36_QuickstartCleanup ==
  \A p \in Procs :
    QuickstartDone(p) =>
      LET before == call[p].pre.files
          recorded == call[p].cleanupPaths
          removed == call[p].removed
      IN  /\ \A path \in DOMAIN before :
               ~UnderDataDir(path) => Has(files, path) /\ files[path] = before[path]
          /\ call[p].err = "fatal"
               => /\ \A i \in 1..Len(recorded) : ~Has(files, recorded[i])
                  /\ Len(removed) = Len(recorded)
                  /\ \A i \in 1..Len(recorded) : removed[i] = recorded[Len(recorded) - i + 1]
          /\ call[p].err = ""
               => /\ removed = <<>> /\ recorded = <<>>
                  /\ {AdminPasswd, MoxConf, DomainsConf, DataDir, AccountsDir} \subseteq DOMAIN files
                  /\ Has(files, IndexDB(call[p].arg.address[1][1]))
                  /\ \A sel \in DOMAIN call[p].d.Selectors :
                       Has(files, call[p].d.Selectors[sel].PrivateKeyFile.name)
                  /\ call[p].arg.linux => Has(files, MoxService)

\* The command has aborted after it had recorded the data directory and the
\* account's files in it, and has removed them with the key files and the
\* configuration files.
C36_Witness ==
  \E p \in Procs :
    /\ QuickstartDone(p) /\ call[p].err = "fatal"
    /\ Len(call[p].cleanupPaths) >= 9
    /\ ~Has(files, DataDir) /\ ~Has(files, AdminPasswd)

\* The command has aborted because a file it creates was there, and the file
\* is still there.
C36_WitnessExists ==
  \E p \in Procs :
    /\ QuickstartDone(p) /\ call[p].why = "creating file"
    /\ Len(call[p].cleanupPaths) >= 3
    /\ Has(files, DomainsConf) /\ files[DomainsConf] = <<"other">>

\* The command has completed.
C36_WitnessCompleted ==
  \E p \in Procs :
    QuickstartDone(p) /\ call[p].err = "" /\ Has(files, MoxService)

====
